---- MODULE Spec2Model ----
(***************************************************************************)
(* Verification model of the BreatheEasy AQI backend.                      *)
(*                                                                         *)
(* Part 1: the scheduled alert sweep (aqi/tasks.py,                        *)
(*         check_and_send_aqi_alerts) with the notification ledger         *)
(*         (aqi/models.py) and the batch fetch it relies on                *)
(*         (aqi/services.py, fetch_batch_current_aqi).                     *)
(* Part 2: the outdoor provider client's throttle and retry loop           *)
(*         (aqi/services.py, OpenMeteoAQIService).                         *)
(* Part 3: the live-data WebSocket (aqi/middleware.py, aqi/consumers.py).  *)
(* Part 4: the MQTT listener (sensors/management/commands/mqtt_listener).  *)
(* Part 5: the accounts service (accounts/models.py, accounts/views.py).   *)
(* Part 6: the REST endpoints of the aqi app (aqi/subscription_views.py,   *)
(*         aqi/views.py) and the error envelope (core/exceptions.py).      *)
(* Part 7: the rankings stream (aqi/views_sse.py).                         *)
(* Part 8: the calculations (aqi/waqi_service.py, core/utils.py).          *)
(* Part 9: the AQI cache (aqi/cache.py), the MQTT configuration endpoint  *)
(*         (sensors/serializers.py) and the persistence of sensor          *)
(*         messages (mqtt_listener, on_message).                           *)
(***************************************************************************)
EXTENDS Integers, Sequences, FiniteSets, TLC

(***************************************************************************)
(* Bounds of the model.                                                    *)
(***************************************************************************)
NumSubs == 3        \* rows of the city_subscriptions table
MaxRuns == 2        \* sweeps started in one behaviour
MaxDate == 2        \* calendar dates the clock runs through
MaxFaults == 1      \* injected infrastructure exceptions in one behaviour

(***************************************************************************)
(* Part 1.  Data of the alert sweep.                                       *)
(***************************************************************************)
Users == {"u1", "u2"}
Workers == {"w1", "w2"}

\* AQI threshold for alerts.
AQI_THRESHOLD == 100

\* Coordinates are one number in units of 0.00001 degree; latitude and
\* longitude are treated alike by the sweep, so one axis is modelled.
PosOf(i) == CASE i % 3 = 1 -> 0
              [] i % 3 = 2 -> 3
              [] OTHER     -> 100

\* The subscription rows, in the order the query returns them.
Subscription(i) == [id |-> i,
                    user |-> IF i % 2 = 1 THEN "u1" ELSE "u2",
                    latitude |-> PosOf(i)]

SubIds == 1..NumSubs

\* round(x, 4): to the nearest multiple of 10 units.
Round4(p) == ((p + 5) \div 10) * 10

\* key = (round(subscription.latitude, 4), round(subscription.longitude, 4))
KeyOf(i) == Round4(Subscription(i).latitude)

\* A SavedLocation row is identified by its unique (user, latitude, longitude).
SavedLoc(i) == [user |-> Subscription(i).user, latitude |-> Subscription(i).latitude]
Unbound == [user |-> "unbound", latitude |-> -1]

\* A value of the 'aqi' field: a number, or None.
NoAqi == -1
AqiValues == {45, 100}

\* One entry of all_results: None, or the formatted response of a coordinate.
NoneResult == [present |-> FALSE, lat |-> -1, aqi |-> NoAqi]
Formatted(k, a) == [present |-> TRUE, lat |-> k, aqi |-> a]

Dates == 1..MaxDate

(***************************************************************************)
(* State.                                                                  *)
(***************************************************************************)
VARIABLES
    date,            \* timezone.now().date()
    runs,            \* sweeps started so far
    faults,          \* infrastructure exceptions raised so far
    subActive,       \* CitySubscription.is_active, per row
    userActive,      \* User.is_active, per user
    savedLocations,  \* rows of saved_locations
    ledger,          \* rows of aqi_notifications
    emailCount,      \* alert emails handed to the mail transport, per (user, location, date)
    lostInserts,     \* (user, location, date) whose insert raised after a send
    task             \* locals of each worker's check_and_send_aqi_alerts call

sweepVars == <<date, runs, faults, subActive, userActive, savedLocations,
               ledger, emailCount, lostInserts, task>>

\* State of the provider client (Part 2).
VARIABLES
    setting,         \* settings.OPEN_METEO_MIN_INTERVAL
    max_retries,     \* self.max_retries
    since_last,      \* time.time() - self._last_request_time, per instance
    inst_interval,   \* instance attribute _min_request_interval, per instance
    lock,            \* holder of the class-level _request_lock
    req,             \* locals of each thread's _make_request call
    requests,        \* requests started so far
    since_call,      \* time since the start of the latest outbound call
    call_gap,        \* at the latest call start: time since the call before it
    call_interval    \* at the latest call start: the caller's throttle interval

throttleVars == <<setting, max_retries, since_last, inst_interval, lock, req,
                  requests, since_call, call_gap, call_interval>>

\* State of one WebSocket connection (Part 3).
VARIABLES
    token,              \* the token query parameter of the connection attempt
    scope_user,         \* scope['user'], set by JWTAuthMiddleware
    ws,                 \* the socket: phase, accepted, close code
    subscribed_cities,  \* self.subscribed_cities, in insertion order
    update_task,        \* self.update_task: locals of periodic_updates
    handler,            \* the receive() call in progress or last finished
    outbound,           \* the latest message periodic_updates gave to self.send
    received            \* inbound messages dispatched to receive() so far

wsVars == <<token, scope_user, ws, subscribed_cities, update_task, handler,
            outbound, received>>

\* State of the MQTT listener process (Part 4).
VARIABLES
    cfg_active,      \* MQTTBrokerConfig.is_active in the database, per user
    cfg_host,        \* MQTTBrokerConfig.host in the database, per user
    reachable,       \* whether the user's broker answers
    clients,         \* Command.clients: the MQTTClientWrapper of each user
    client_order,    \* the key order of Command.clients
    main,            \* the main thread: position and locals of handle()
    changes          \* changes made by the outside world so far

mqttVars == <<cfg_active, cfg_host, reachable, clients, client_order, main,
              changes>>

\* State of the accounts service (Part 5).
VARIABLES
    clock,           \* timezone.now(), in half hours
    accounts,        \* the users table: the fields the auth endpoints use
    next_token,      \* tokens drawn from secrets.token_urlsafe so far
    outstanding,     \* refresh tokens issued by RefreshToken.for_user
    blacklisted,     \* refresh tokens in the token blacklist
    exchange,        \* the latest request and its response
    revoked,         \* refresh tokens whose logout was answered 200
    spent            \* reset tokens whose reset was answered 200

authVars == <<clock, accounts, next_token, outstanding, blacklisted, exchange,
              revoked, spent>>

\* State of the REST endpoints of the aqi app (Part 6).
VARIABLES
    subscriptions,   \* the city_subscriptions table, by primary key
    saved_locations, \* the saved_locations rows send_notification creates
    outbox,          \* the alert emails handed to the mail backend
    cache,           \* the coordinates with a cached current reading
    batch,           \* the batch request being answered: loop position, results
    api              \* the latest request and its response

apiVars == <<subscriptions, saved_locations, outbox, cache, batch, api>>

\* State of one rankings stream (Part 7).
VARIABLES
    client,          \* whether the browser still reads the stream
    stream,          \* the generator: position, ages of last_heartbeat/last_update
    events           \* the first event, the latest one and the one before it

sseVars == <<client, stream, events>>

\* State of the calculations (Part 8).
VARIABLES
    station_readings,  \* the station readings the builder meets, in order
    top_n,             \* the builder's top_n argument
    stations_processed,\* readings consumed so far
    city_aqi_map,      \* the builder's dict, in insertion order
    rankings,          \* the list the builder returned
    calc               \* a call of a core.utils calculator: arguments and result

calcVars == <<station_readings, top_n, stations_processed, city_aqi_map,
              rankings, calc>>

\* State of the stores written outside the parts above (Part 9).
VARIABLES
    aqi_store,       \* the keys the AQI cache holds a payload under
    cache_call,      \* the latest call of aqi/cache.py: arguments and result
    broker_config,   \* the mqtt_broker_configs row of the requesting user
    config_call,     \* the latest PUT or PATCH of /api/mqtt-config/
    sensor_rows,     \* rows of sensor_readings, oldest first
    inbound          \* the latest MQTT message handed to on_message

storeVars == <<aqi_store, cache_call, broker_config, config_call, sensor_rows,
               inbound>>

\* The variables outside each part.
outsideSweep == <<throttleVars, wsVars, mqttVars, authVars, apiVars, sseVars,
                  calcVars, storeVars>>
outsideThrottle == <<sweepVars, wsVars, mqttVars, authVars, apiVars, sseVars,
                     calcVars, storeVars>>
outsideWs == <<sweepVars, throttleVars, mqttVars, authVars, apiVars, sseVars,
               calcVars, storeVars>>
outsideMqtt == <<sweepVars, throttleVars, wsVars, authVars, apiVars, sseVars,
                 calcVars, storeVars>>
outsideAuth == <<sweepVars, throttleVars, wsVars, mqttVars, apiVars, sseVars,
                 calcVars, storeVars>>
outsideApi == <<sweepVars, throttleVars, wsVars, mqttVars, authVars, sseVars,
                calcVars, storeVars>>
outsideSse == <<sweepVars, throttleVars, wsVars, mqttVars, authVars, apiVars,
                calcVars, storeVars>>
outsideCalc == <<sweepVars, throttleVars, wsVars, mqttVars, authVars, apiVars,
                 sseVars, storeVars>>
outsideStore == <<sweepVars, throttleVars, wsVars, mqttVars, authVars, apiVars,
                  sseVars, calcVars>>

IdleTask == [pc |-> "idle", today |-> 0,
             pairs |-> << >>, keys |-> << >>, location_aqi_map |-> << >>,
             todo |-> << >>, saved_location |-> Unbound,
             notifications_sent |-> 0, errors |-> << >>,
             status |-> "none", returned_sent |-> 0, error_count |-> 0]

(***************************************************************************)
(* Pure helpers of the sweep.                                              *)
(***************************************************************************)
IdSeq == [i \in SubIds |-> i]

\* CitySubscription.objects.filter(is_active=True)
ActiveSubscriptions(sa) == SelectSeq(IdSeq, LAMBDA i : sa[i])

\* The loop that skips inactive users.
WithActiveUser(subs, ua) == SelectSeq(subs, LAMBDA i : ua[Subscription(i).user])

\* location_groups.keys(): the keys in order of first insertion.
RECURSIVE GroupKeys(_)
GroupKeys(subs) ==
    IF subs = << >> THEN << >>
    ELSE LET front == GroupKeys(SubSeq(subs, 1, Len(subs) - 1))
             k == KeyOf(subs[Len(subs)])
         IN IF \E j \in 1..Len(front) : front[j] = k THEN front ELSE Append(front, k)

\* location_groups[key]: the (user, subscription) pairs of one key.
GroupPairs(subs, k) == SelectSeq(subs, LAMBDA i : KeyOf(i) = k)

\* fetch_batch_current_aqi: the None entries are filtered out of the result.
ValidResults(all_results) == SelectSeq(all_results, LAMBDA r : r.present)

\* location_aqi_map: the i-th key gets the i-th returned result.
LocationAqiMap(keys, aqi_results) ==
    [k \in {keys[i] : i \in (1..Len(keys)) \cap (1..Len(aqi_results))} |->
        LET i == CHOOSE j \in 1..Len(keys) : keys[j] = k
        IN aqi_results[i]]

\* Whether the group of key k passes the checks before the pair loop.
GroupAlerts(map, k) ==
    /\ k \in DOMAIN map
    /\ map[k].aqi # NoAqi
    /\ ~(map[k].aqi < AQI_THRESHOLD)

\* The pairs the loop will process, in order, each with its aqi_value.
\* aqi_data is the map's entry; each pair also carries, for the record, the
\* entry of all_results at its own key's position (own).
RECURSIVE PairsToProcess(_, _, _, _)
PairsToProcess(subs, keys, map, all_results) ==
    IF keys = << >> THEN << >>
    ELSE LET k == Head(keys)
             rest == PairsToProcess(subs, Tail(keys), map, Tail(all_results))
             pairs == GroupPairs(subs, k)
         IN IF GroupAlerts(map, k)
            THEN [j \in 1..Len(pairs) |->
                     [sub |-> pairs[j], aqi_value |-> map[k].aqi, aqi_data |-> map[k],
                      own |-> Head(all_results)]]
                 \o rest
            ELSE rest

Triple(i, d) == [user |-> Subscription(i).user, saved_location |-> SavedLoc(i), date |-> d]
Triples == {Triple(i, d) : i \in SubIds, d \in Dates}
RowTriple(row) == [user |-> row.user, saved_location |-> row.saved_location, date |-> row.date]

\* The existence check without the date filter.
ExistingNotification_IgnoresDate(rows, i, d) ==
    \E row \in rows : /\ row.user = Subscription(i).user
                      /\ row.saved_location = SavedLoc(i)

\* AQINotification.objects.filter(user, saved_location, date=today).exists()
ExistingNotification(rows, i, d) == \E row \in rows : RowTriple(row) = Triple(i, d)

\* What the provider can give for a batch of keys: per coordinate None or a
\* formatted response whose 'aqi' is a number or None.
BatchOutcomes(keys) ==
    {f \in [1..Len(keys) ->
              {NoneResult} \cup {Formatted(keys[i], a) : i \in 1..Len(keys),
                                                       a \in AqiValues \cup {NoAqi}}] :
        \A i \in 1..Len(keys) : f[i].present => f[i].lat = keys[i]}

\* The return of a finished call.
Returned(t, status, sent, errs) ==
    [IdleTask EXCEPT !.status = status,
                     !.returned_sent = sent, !.error_count = Len(errs)]

\* The 'continue' of the pair loop, and the end of the loops.
NextPair(t) ==
    LET rest == Tail(t.todo)
    IN [t EXCEPT !.todo = rest,
                 !.pc = IF rest = << >> THEN "finish" ELSE "get_or_create"]

\* The inner except clause: it formats saved_location.name, which raises in
\* its turn when saved_location was never bound in this call; the outer
\* except clause then returns status 'error'.
HandlePairException(t) ==
    IF t.saved_location = Unbound
    THEN Returned(t, "error", 0, << >>)
    ELSE NextPair([t EXCEPT !.errors = Append(@, [sub |-> Head(t.todo).sub,
                                                  kind |-> "exception"])])

(***************************************************************************)
(* Actions of the sweep.                                                   *)
(***************************************************************************)
\* Lines 40-79: read the date, query the subscriptions, group them.
StartSweep(w) ==
    /\ task[w].pc = "idle"
    /\ runs < MaxRuns
    /\ runs' = runs + 1
    /\ LET subs == ActiveSubscriptions(subActive)
           pairs == WithActiveUser(subs, userActive)
           fresh == [IdleTask EXCEPT !.today = date]
       IN task' = [task EXCEPT ![w] =
              IF subs = << >> \/ pairs = << >>
              THEN Returned(fresh, "success", 0, << >>)
              ELSE [fresh EXCEPT !.pc = "fetch", !.pairs = pairs,
                                 !.keys = GroupKeys(pairs)]]
    /\ UNCHANGED <<date, faults, subActive, userActive, savedLocations, ledger,
                   emailCount, lostInserts>>
    /\ UNCHANGED outsideSweep

\* Lines 84-121: the batch fetch, the coordinate-to-result map, the threshold.
FetchBatch(w) ==
    /\ task[w].pc = "fetch"
    /\ \E all_results \in BatchOutcomes(task[w].keys) :
          LET t == task[w]
              aqi_results == ValidResults(all_results)
              map == LocationAqiMap(t.keys, aqi_results)
              todo == PairsToProcess(t.pairs, t.keys, map, all_results)
              u == [t EXCEPT !.location_aqi_map = map, !.todo = todo,
                             !.pairs = << >>, !.keys = << >>]
          IN task' = [task EXCEPT ![w] =
                 IF aqi_results = << >>
                 THEN Returned(u, "error", 0, << >>)
                 ELSE [u EXCEPT !.pc = IF todo = << >> THEN "finish"
                                       ELSE "get_or_create"]]
    /\ UNCHANGED <<date, runs, faults, subActive, userActive, savedLocations,
                   ledger, emailCount, lostInserts>>
    /\ UNCHANGED outsideSweep

\* Lines 127-136: SavedLocation.objects.get_or_create.
GetOrCreateSavedLocation(w) ==
    /\ task[w].pc = "get_or_create"
    /\ \E raises \in BOOLEAN :
          /\ raises => faults < MaxFaults
          /\ LET t == task[w]
                 loc == SavedLoc(Head(t.todo).sub)
             IN IF raises
                THEN /\ faults' = faults + 1
                     /\ task' = [task EXCEPT ![w] = HandlePairException(t)]
                     /\ UNCHANGED savedLocations
                ELSE /\ savedLocations' = savedLocations \cup {loc}
                     /\ task' = [task EXCEPT ![w] =
                            [t EXCEPT !.saved_location = loc, !.pc = "check"]]
                     /\ UNCHANGED faults
    /\ UNCHANGED <<date, runs, subActive, userActive, ledger, emailCount, lostInserts>>
    /\ UNCHANGED outsideSweep

\* Lines 139-150: the existence check on the ledger.
CheckExistingNotification(w) ==
    /\ task[w].pc = "check"
    /\ \E raises \in BOOLEAN :
          /\ raises => faults < MaxFaults
          /\ LET t == task[w]
             IN IF raises
                THEN /\ faults' = faults + 1
                     /\ task' = [task EXCEPT ![w] = HandlePairException(t)]
                ELSE /\ task' = [task EXCEPT ![w] =
                            IF ExistingNotification(ledger, Head(t.todo).sub, t.today)
                            THEN NextPair(t)
                            ELSE [t EXCEPT !.pc = "send"]]
                     /\ UNCHANGED faults
    /\ UNCHANGED <<date, runs, subActive, userActive, savedLocations, ledger,
                   emailCount, lostInserts>>
    /\ UNCHANGED outsideSweep

\* The return value of send_aqi_alert_email left unread.
AfterSend_IgnoresResult(t, email_sent) == [t EXCEPT !.pc = "insert"]

\* A row written for the send that returned False.
AfterSend_RecordsFailedSend(t, email_sent) ==
    IF email_sent THEN NextPair(t) ELSE [t EXCEPT !.pc = "insert"]

\* Lines 165-181: what follows the return of send_aqi_alert_email.
AfterSend(t, email_sent) ==
    IF email_sent
    THEN [t EXCEPT !.pc = "insert"]
    ELSE NextPair([t EXCEPT !.errors = Append(@, [sub |-> Head(t.todo).sub,
                                                  kind |-> "send_failed"])])

\* Lines 158-163: send_aqi_alert_email returns True or False, or raises
\* before it reaches the mail transport.
SendAlertEmail(w) ==
    /\ task[w].pc = "send"
    /\ \E outcome \in {"true", "false", "raise"} :
          /\ outcome = "raise" => faults < MaxFaults
          /\ LET t == task[w]
                 cur == Head(t.todo)
             IN CASE outcome = "true" ->
                       /\ emailCount' = [emailCount EXCEPT
                                             ![Triple(cur.sub, t.today)] = @ + 1]
                       /\ task' = [task EXCEPT ![w] = AfterSend(t, TRUE)]
                       /\ UNCHANGED faults
                  [] outcome = "false" ->
                       /\ task' = [task EXCEPT ![w] = AfterSend(t, FALSE)]
                       /\ UNCHANGED <<emailCount, faults>>
                  [] OTHER ->
                       /\ faults' = faults + 1
                       /\ task' = [task EXCEPT ![w] = HandlePairException(t)]
                       /\ UNCHANGED emailCount
    /\ UNCHANGED <<date, runs, subActive, userActive, savedLocations, ledger,
                   lostInserts>>
    /\ UNCHANGED outsideSweep

\* The aqi_notifications table without its unique constraint.
UniqueTogether_NotEnforced(rows, i, d) == FALSE

\* aqi/models.py line 56: unique_together = ['user', 'saved_location', 'date'],
\* whether an insert for subscription i on date d meets a row of its triple.
UniqueTogether(rows, i, d) == \E row \in rows : RowTriple(row) = Triple(i, d)

\* Lines 165-176: AQINotification.objects.create; the row gets the next
\* automatic id, and unique_together makes the insert raise IntegrityError
\* when a row of the triple is already there.
CreateNotification(w) ==
    /\ task[w].pc = "insert"
    /\ \E raises \in BOOLEAN :
          /\ raises => faults < MaxFaults
          /\ LET t == task[w]
                 cur == Head(t.todo)
             IN IF raises
                THEN /\ faults' = faults + 1
                     /\ lostInserts' = lostInserts \cup {Triple(cur.sub, t.today)}
                     /\ task' = [task EXCEPT ![w] = HandlePairException(t)]
                     /\ UNCHANGED ledger
                ELSE IF UniqueTogether(ledger, cur.sub, t.today)
                THEN /\ task' = [task EXCEPT ![w] = HandlePairException(t)]
                     /\ UNCHANGED <<ledger, faults, lostInserts>>
                ELSE /\ ledger' = ledger \cup
                            {[id |-> Cardinality(ledger) + 1,
                              user |-> Subscription(cur.sub).user,
                              saved_location |-> t.saved_location,
                              aqi_value |-> cur.aqi_value, date |-> t.today]}
                     /\ task' = [task EXCEPT ![w] =
                            NextPair([t EXCEPT !.notifications_sent = @ + 1])]
                     /\ UNCHANGED <<faults, lostInserts>>
    /\ UNCHANGED <<date, runs, subActive, userActive, savedLocations, emailCount>>
    /\ UNCHANGED outsideSweep

\* Lines 189-205: build and return the result.
FinishSweep(w) ==
    /\ task[w].pc = "finish"
    /\ task' = [task EXCEPT ![w] =
           Returned(task[w], "success", task[w].notifications_sent, task[w].errors)]
    /\ UNCHANGED <<date, runs, faults, subActive, userActive, savedLocations,
                   ledger, emailCount, lostInserts>>
    /\ UNCHANGED outsideSweep

\* Midnight passes.
AdvanceDay ==
    /\ date < MaxDate
    /\ date' = date + 1
    /\ UNCHANGED <<runs, faults, subActive, userActive, savedLocations, ledger,
                   emailCount, lostInserts, task>>
    /\ UNCHANGED outsideSweep

SweepInit ==
    /\ date = 1
    /\ runs = 0
    /\ faults = 0
    /\ subActive \in [SubIds -> BOOLEAN]
    /\ userActive \in [Users -> BOOLEAN]
    /\ savedLocations = {}
    /\ ledger = {}
    /\ emailCount = [tr \in Triples |-> 0]
    /\ lostInserts = {}
    /\ task = [w \in Workers |-> IdleTask]

SweepStep(w) ==
    \/ FetchBatch(w)
    \/ GetOrCreateSavedLocation(w)
    \/ CheckExistingNotification(w)
    \/ SendAlertEmail(w)
    \/ CreateNotification(w)
    \/ FinishSweep(w)

(***************************************************************************)
(* Part 2.  OpenMeteoAQIService: throttle, adaptive interval, retry loop.  *)
(* Times are in milliseconds.                                              *)
(***************************************************************************)
\* Module-level OpenMeteoAQIService() objects of one process (aqi/views.py,
\* aqi/views_sse.py), used by a process that serves one request at a time.
Instances == {"views", "views_sse"}
Threads == {"t1"}

MaxRequests == 3      \* _make_request calls started in one behaviour
MaxRetriesCfg == 3    \* largest OPEN_METEO_MAX_RETRIES tried
Latency == 100        \* duration of one outbound call

\* Elapsed times are kept exactly up to AgeCap, which exceeds every interval
\* they are compared with; beyond it they saturate.
AgeCap == 4000

\* Class attributes of OpenMeteoAQIService.
CLS_MIN_REQUEST_INTERVAL == 1000
CLS_MAX_REQUEST_INTERVAL == 2000

\* An instance attribute that was never assigned.
NotSet == -1

\* settings.OPEN_METEO_MIN_INTERVAL: absent, or a number.
ConfiguredIntervals == {NotSet, 1950, 3000}

\* What one outbound attempt can end in.
Responses == {"ok", "bad_body", "429", "400", "5xx", "timeout", "conn_error"}

\* self.min_interval = getattr(settings, 'OPEN_METEO_MIN_INTERVAL', 1.0)
min_interval == IF setting = NotSet THEN 1000 ELSE setting

\* Attribute lookup: the instance attribute when assigned, else the class one.
IntervalOf(attrs, i) ==
    IF attrs[i] = NotSet THEN CLS_MIN_REQUEST_INTERVAL ELSE attrs[i]

MinRequestInterval(i) == IntervalOf(inst_interval, i)

Min(a, b) == IF a < b THEN a ELSE b
Max(a, b) == IF a > b THEN a ELSE b

\* min(self._min_request_interval * 1.5, self._max_request_interval)
Increased(x) == Min((x * 3) \div 2, CLS_MAX_REQUEST_INTERVAL)

\* max(self._min_request_interval * 0.95, self.min_interval)
Decreased(x, base) == Max((x * 95) \div 100, base)

\* 2 ** attempt
RECURSIVE Pow2(_)
Pow2(n) == IF n = 0 THEN 1 ELSE 2 * Pow2(n - 1)

\* The wait before the next attempt.
BackoffWait(status, attempt) ==
    IF status = "429" THEN (2 * Pow2(attempt) + attempt) * 1000
    ELSE Pow2(attempt) * 1000

\* What _make_request does with the outcome of one attempt: "retry429" and
\* "retry" sleep and continue the loop, "none" returns None, "data" returns
\* the parsed body.
Verdict_Retries400(status, attempt, retries) ==
    CASE status = "ok" -> "data"
      [] status = "bad_body" -> "none"
      [] status = "429" -> IF attempt < retries - 1 THEN "retry429" ELSE "none"
      [] OTHER -> IF attempt < retries - 1 THEN "retry" ELSE "none"

Verdict(status, attempt, retries) ==
    CASE status = "ok" -> "data"
      [] status = "bad_body" -> "none"
      [] status = "429" -> IF attempt < retries - 1 THEN "retry429" ELSE "none"
      [] status = "400" -> "none"
      [] OTHER -> IF attempt < retries - 1 THEN "retry" ELSE "none"

IdleReq == [pc |-> "idle", inst |-> "views", retries |-> 0, attempt |-> 0,
            sleep |-> 0, made |-> 0, last |-> "none", result |-> "none"]

\* The call has returned: its locals are gone, its result stays.
Finished(last, result) == [IdleReq EXCEPT !.pc = "done", !.last = last, !.result = result]

\* 'continue': the next round of 'for attempt in range(retries)', or the
\* 'return None' that follows the loop.
NextAttempt(q) ==
    IF q.attempt + 1 < q.retries
    THEN [q EXCEPT !.pc = "attempt", !.attempt = @ + 1]
    ELSE Finished(q.last, "none")

ThrottleInit ==
    /\ setting \in ConfiguredIntervals
    /\ max_retries \in 1..MaxRetriesCfg
    \* The class attribute _last_request_time = 0 is read until an instance
    \* assigns its own: the epoch lies far in the past.
    /\ since_last = [i \in Instances |-> AgeCap]
    \* __init__: the instance attribute is assigned only when the setting exists.
    /\ inst_interval = [i \in Instances |-> setting]
    /\ lock = "free"
    /\ req = [r \in Threads |-> IdleReq]
    /\ requests = 0
    /\ since_call = AgeCap
    /\ call_gap = AgeCap
    /\ call_interval = 0

\* Lines 113-117: a thread calls _make_request (or _make_weather_request) on
\* one of the instances.
BeginRequest(r, i) ==
    /\ req[r].pc \in {"idle", "done"}
    /\ requests < MaxRequests
    /\ requests' = requests + 1
    /\ req' = [req EXCEPT ![r] = [IdleReq EXCEPT !.pc = "throttle", !.inst = i,
                                                 !.retries = max_retries]]
    /\ UNCHANGED <<setting, max_retries, since_last, inst_interval, lock,
                   since_call, call_gap, call_interval>>
    /\ UNCHANGED outsideThrottle

\* Lines 75-82: take the lock, read the clock, sleep for the rest of the interval.
ThrottleEnter(r) ==
    /\ req[r].pc = "throttle"
    /\ lock = "free"
    /\ lock' = r
    /\ LET i == req[r].inst
           time_since_last == since_last[i]
           sleep_time == MinRequestInterval(i) - time_since_last
       IN req' = [req EXCEPT ![r].pc = "throttle_sleep",
                             ![r].sleep = IF time_since_last < MinRequestInterval(i)
                                          THEN sleep_time ELSE 0]
    /\ UNCHANGED <<setting, max_retries, since_last, inst_interval, requests,
                   since_call, call_gap, call_interval>>
    /\ UNCHANGED outsideThrottle

\* Line 84: self._last_request_time = time.time(), then the lock is released
\* and the loop 'for attempt in range(retries)' is entered.
ThrottleExit(r) ==
    /\ req[r].pc = "throttle_sleep"
    /\ req[r].sleep = 0
    /\ since_last' = [since_last EXCEPT ![req[r].inst] = 0]
    /\ lock' = "free"
    /\ req' = [req EXCEPT ![r] = IF req[r].retries > 0
                                  THEN [req[r] EXCEPT !.pc = "attempt"]
                                  ELSE Finished("none", "none")]
    /\ UNCHANGED <<setting, max_retries, inst_interval, requests,
                   since_call, call_gap, call_interval>>
    /\ UNCHANGED outsideThrottle

\* Lines 126-131: requests.get starts an outbound call.
IssueAttempt(r) ==
    /\ req[r].pc = "attempt"
    /\ req' = [req EXCEPT ![r].pc = "in_flight", ![r].made = @ + 1]
    /\ call_gap' = since_call
    /\ call_interval' = MinRequestInterval(req[r].inst)
    /\ since_call' = 0
    /\ UNCHANGED <<setting, max_retries, since_last, inst_interval, lock, requests>>
    /\ UNCHANGED outsideThrottle

Sleeping(r) == req[r].pc \in {"throttle_sleep", "backoff", "backoff429"}

\* The clocks after d more milliseconds.
Elapse(ages, d) == [i \in DOMAIN ages |-> Min(ages[i] + d, AgeCap)]

\* Lines 134-237: the call ends after its latency; the outcome of the attempt.
ReceiveResponse(r) ==
    /\ req[r].pc = "in_flight"
    /\ \E status \in Responses :
          LET q == [req[r] EXCEPT !.last = status]
              v == Verdict(status, q.attempt, q.retries)
              after == CASE v = "data" -> [q EXCEPT !.pc = "adjust_decrease"]
                         [] v = "none" -> Finished(status, "none")
                         [] v = "retry429" ->
                              [q EXCEPT !.pc = "backoff429",
                                        !.sleep = BackoffWait(status, q.attempt)]
                         [] OTHER ->
                              [q EXCEPT !.pc = "backoff",
                                        !.sleep = BackoffWait(status, q.attempt)]
          IN req' = [x \in Threads |->
                        IF x = r THEN after
                        ELSE IF Sleeping(x)
                             THEN [req[x] EXCEPT !.sleep = Max(@ - Latency, 0)]
                             ELSE req[x]]
    /\ since_last' = Elapse(since_last, Latency)
    /\ since_call' = Min(since_call + Latency, AgeCap)
    /\ UNCHANGED <<setting, max_retries, inst_interval, lock, requests,
                   call_gap, call_interval>>
    /\ UNCHANGED outsideThrottle

\* time.sleep(wait_time) is over; 'continue' after a 5xx, timeout or error.
BackoffEnd(r) ==
    /\ req[r].pc = "backoff"
    /\ req[r].sleep = 0
    /\ req' = [req EXCEPT ![r] = NextAttempt(req[r])]
    /\ UNCHANGED <<setting, max_retries, since_last, inst_interval, lock,
                   requests, since_call, call_gap, call_interval>>
    /\ UNCHANGED outsideThrottle

\* Lines 92-95, called at line 152 after the sleep that follows a 429.
AdjustIncrease(r) ==
    /\ req[r].pc = "backoff429"
    /\ req[r].sleep = 0
    /\ lock = "free"
    /\ inst_interval' = [inst_interval EXCEPT ![req[r].inst] =
                            Increased(MinRequestInterval(req[r].inst))]
    /\ req' = [req EXCEPT ![r] = NextAttempt(req[r])]
    /\ UNCHANGED <<setting, max_retries, since_last, lock, requests,
                   since_call, call_gap, call_interval>>
    /\ UNCHANGED outsideThrottle

\* Lines 96-100, called at line 214 on a well-formed 200 response.
AdjustDecrease(r) ==
    /\ req[r].pc = "adjust_decrease"
    /\ lock = "free"
    /\ LET i == req[r].inst
           x == MinRequestInterval(i)
       IN inst_interval' = [inst_interval EXCEPT ![i] =
                               IF x > min_interval THEN Decreased(x, min_interval)
                               ELSE @]
    /\ req' = [req EXCEPT ![r] = Finished(req[r].last, "data")]
    /\ UNCHANGED <<setting, max_retries, since_last, lock, requests,
                   since_call, call_gap, call_interval>>
    /\ UNCHANGED outsideThrottle

\* Time passes: up to the wake-up of a sleeper, or for a long pause.
AdvanceTime ==
    /\ \E d \in {req[r].sleep : r \in {x \in Threads : Sleeping(x)}} \cup {AgeCap} :
          /\ d > 0
          /\ since_last' = Elapse(since_last, d)
          /\ since_call' = Min(since_call + d, AgeCap)
          /\ req' = [r \in Threads |->
                        IF Sleeping(r) THEN [req[r] EXCEPT !.sleep = Max(@ - d, 0)]
                        ELSE req[r]]
    /\ UNCHANGED <<setting, max_retries, inst_interval, lock, requests,
                   call_gap, call_interval>>
    /\ UNCHANGED outsideThrottle

\* No sweep has run.
SweepIdle ==
    /\ date = 1
    /\ runs = 0
    /\ faults = 0
    /\ savedLocations = {}
    /\ ledger = {}
    /\ emailCount = [tr \in Triples |-> 0]
    /\ lostInserts = {}
    /\ task = [w \in Workers |-> IdleTask]

\* The sweep at rest, for the behaviours of the client alone.
SweepAtRest ==
    /\ subActive = [i \in SubIds |-> TRUE]
    /\ userActive = [u \in Users |-> TRUE]
    /\ SweepIdle

\* The client at rest, for the behaviours of the sweep alone.
ClientAtRest ==
    /\ setting = NotSet
    /\ max_retries = MaxRetriesCfg
    /\ since_last = [i \in Instances |-> AgeCap]
    /\ inst_interval = [i \in Instances |-> NotSet]
    /\ lock = "free"
    /\ req = [r \in Threads |-> IdleReq]
    /\ requests = 0
    /\ since_call = AgeCap
    /\ call_gap = AgeCap
    /\ call_interval = 0

(***************************************************************************)
(* Part 3.  The live-data WebSocket (aqi/middleware.py, aqi/consumers.py). *)
(***************************************************************************)
MaxMessages == 2       \* inbound messages of one connection
WsAgeCap == 31         \* seconds at which the loop's ages saturate
SlowFetch == 10        \* seconds a slow fetch_current_aqi call takes

\* Tokens a client may present: none, one that fails validation, a valid one
\* without a user_id claim, a valid one of a deleted user, a valid one per user.
Tokens == {"none", "garbage", "no_user_id", "ghost"} \cup Users

AnonymousUser == "AnonymousUser"

\* get_user_from_token: the user row of a valid token, else AnonymousUser.
get_user_from_token(t) == IF t \in Users THEN t ELSE AnonymousUser

\* JWTAuthMiddleware.__call__: scope['user'].
ScopeUser(t) == IF t # "none" THEN get_user_from_token(t) ELSE AnonymousUser

\* Everyone counts as authenticated.
is_authenticated_Anyone(u) == TRUE

\* user.is_authenticated: True on every User row, False on AnonymousUser.
is_authenticated(u) == u \in Users

\* City and country of a subscription row; every row is in one country.
Cities == {"Lahore", "Karachi"}
SubCity(i) == IF i % 3 = 1 THEN "Lahore" ELSE "Karachi"

\* city_key = f"{city}_{country}".lower()
CityKey(c) == IF c = "Lahore" THEN "lahore_pk" ELSE "karachi_pk"

FetchTimes == {0, SlowFetch}
FetchResults == {"data", "none", "raises"}

Absent == "absent"
\* Inbound frames: what json.loads and data.get() find in them.  A subscribe
\* frame is complete, with a numeric or a non-numeric lat, or lacks one field.
Frame(type, city, country, lat, lon) ==
    [type |-> type, city |-> city, country |-> country, lat |-> lat, lon |-> lon]
Frames ==
    {Frame("subscribe", c, TRUE, lat, "number") :
        c \in Cities, lat \in {"number", "text"}}
    \cup {Frame("subscribe", Absent, TRUE, "number", "number"),
          Frame("subscribe", "Lahore", FALSE, "number", "number"),
          Frame("subscribe", "Lahore", TRUE, Absent, "number"),
          Frame("subscribe", "Lahore", TRUE, "number", Absent)}
    \cup {Frame("unsubscribe", c, TRUE, Absent, Absent) : c \in Cities}
    \cup {Frame("unsubscribe", Absent, TRUE, Absent, Absent),
          Frame("unsubscribe", "Lahore", FALSE, Absent, Absent)}
    \cup {Frame(t, Absent, FALSE, Absent, Absent) : t \in {"ping", "other", "not_json"}}

\* all([city, country, lat is not None, lon is not None])
HasRequiredFields(m) ==
    m.city # Absent /\ m.country /\ m.lat # Absent /\ m.lon # Absent

NoMessage == [type |-> "none", city |-> Absent]
Message(type, city) == [type |-> type, city |-> city]

\* dict assignment: an existing key keeps its place, a new key goes last.
DictSet(d, k, c) ==
    IF \E x \in 1..Len(d) : d[x].key = k
    THEN [x \in 1..Len(d) |-> IF d[x].key = k THEN [key |-> k, city |-> c] ELSE d[x]]
    ELSE Append(d, [key |-> k, city |-> c])

\* del d[k]
DictDel(d, k) == SelectSeq(d, LAMBDA e : e.key # k)

HasKey(d, k) == \E x \in 1..Len(d) : d[x].key = k

\* load_user_subscriptions: the user's active rows, in query order.
RECURSIVE LoadedFrom(_, _, _)
LoadedFrom(i, u, sa) ==
    IF i > NumSubs THEN << >>
    ELSE LET rest == LoadedFrom(i + 1, u, sa)
         IN IF Subscription(i).user = u /\ sa[i]
            THEN <<i>> \o rest ELSE rest

RECURSIVE FillDict(_, _)
FillDict(d, ids) ==
    IF ids = << >> THEN d
    ELSE FillDict(DictSet(d, CityKey(SubCity(Head(ids))), SubCity(Head(ids))),
                  Tail(ids))

\* last_heartbeat = 0 and last_update = 0 lie further back than any interval
\* on the event loop's monotonic clock.
NoTask == [pc |-> "none", queue |-> << >>, hb_age |-> WsAgeCap,
           upd_age |-> WsAgeCap, first_heartbeat |-> TRUE]
NoFrame == Frame("none", Absent, FALSE, Absent, Absent)
\* m: the frame being handled; result: what fetch_current_aqi gave for it.
IdleHandler == [pc |-> "idle", m |-> NoFrame, result |-> "not_fetched",
                replies |-> << >>]

Aged(a, d) == IF a + d > WsAgeCap THEN WsAgeCap ELSE a + d

WsStart ==
    /\ token \in Tokens
    /\ scope_user = "unset"
    /\ ws = [phase |-> "new", accepted |-> FALSE, close_code |-> 0]
    /\ subscribed_cities = << >>
    /\ update_task = NoTask
    /\ handler = IdleHandler
    /\ outbound = NoMessage
    /\ received = 0

\* JWTAuthMiddleware.__call__
MiddlewareCall ==
    /\ ws.phase = "new"
    /\ scope_user' = ScopeUser(token)
    /\ ws' = [ws EXCEPT !.phase = "handshake"]
    /\ UNCHANGED <<token, subscribed_cities, update_task, handler, outbound,
                   received>>
    /\ UNCHANGED outsideWs

\* connect(), up to close(code=4001) or accept()
Connect ==
    /\ ws.phase = "handshake"
    /\ ws' = IF ~is_authenticated(scope_user)
             THEN [phase |-> "closed", accepted |-> FALSE, close_code |-> 4001]
             ELSE [phase |-> "accepted", accepted |-> TRUE, close_code |-> 0]
    /\ UNCHANGED <<token, scope_user, subscribed_cities, update_task, handler,
                   outbound, received>>
    /\ UNCHANGED outsideWs

\* connect(), after accept(): load_user_subscriptions and create_task
LoadAndStart ==
    /\ ws.phase = "accepted"
    /\ subscribed_cities' = FillDict(<< >>, LoadedFrom(1, scope_user, subActive))
    /\ update_task' = [NoTask EXCEPT !.pc = "sleep"]
    /\ ws' = [ws EXCEPT !.phase = "open"]
    /\ UNCHANGED <<token, scope_user, handler, outbound, received>>
    /\ UNCHANGED outsideWs

\* disconnect(): the update task is cancelled.
Disconnect ==
    /\ ws.phase = "open"
    /\ handler.pc = "idle"
    /\ ws' = [ws EXCEPT !.phase = "disconnected"]
    /\ update_task' = [update_task EXCEPT !.pc = "cancelled", !.queue = << >>]
    /\ UNCHANGED <<token, scope_user, subscribed_cities, handler, outbound,
                   received>>
    /\ UNCHANGED outsideWs

\* The handler's reply through self.send.
Reply(m, type, city, subs, pc) ==
    /\ outbound' = outbound
    /\ handler' = [pc |-> pc, m |-> m, result |-> "not_fetched",
                   replies |-> <<[type |-> type, city |-> city]>>]
    /\ subscribed_cities' = subs

NoReply(m, subs, pc) ==
    /\ outbound' = outbound
    /\ handler' = [pc |-> pc, m |-> m, result |-> "not_fetched",
                   replies |-> << >>]
    /\ subscribed_cities' = subs

\* receive(), handle_subscribe up to the fetch, handle_unsubscribe
Receive(m) ==
    /\ ws.phase = "open"
    /\ handler.pc = "idle"
    /\ received < MaxMessages
    /\ received' = received + 1
    /\ CASE m.type = "not_json" ->
                Reply(m, "error", Absent, subscribed_cities, "idle")
         [] m.type = "subscribe" ->
                IF ~HasRequiredFields(m)
                THEN Reply(m, "error", Absent, subscribed_cities, "idle")
                ELSE IF m.lat = "text"
                THEN \* float(lat) raises: except Exception in receive
                     Reply(m, "error", Absent, subscribed_cities, "idle")
                ELSE NoReply(m, DictSet(subscribed_cities, CityKey(m.city), m.city),
                             "fetch")
         [] m.type = "unsubscribe" ->
                IF m.city = Absent \/ ~m.country
                THEN Reply(m, "error", Absent, subscribed_cities, "idle")
                ELSE NoReply(m, DictDel(subscribed_cities, CityKey(m.city)), "idle")
         [] m.type = "ping" ->
                Reply(m, "pong", Absent, subscribed_cities, "idle")
         [] OTHER ->
                Reply(m, "error", Absent, subscribed_cities, "idle")
    /\ UNCHANGED <<token, scope_user, ws, update_task>>
    /\ UNCHANGED outsideWs

\* Every fetch result is reported as an error.
UpdateType_AlwaysError(res) == "error"

\* What send_aqi_update sends for a fetch result.
UpdateType(res) == IF res = "data" THEN "aqi_update" ELSE "error"

\* handle_subscribe: send_aqi_update(city, country, lat, lon)
SubscribeUpdate(res) ==
    /\ handler.pc = "fetch"
    /\ outbound' = outbound
    /\ handler' = [handler EXCEPT !.pc = "idle", !.result = res,
                     !.replies = Append(@, [type |-> UpdateType(res),
                                            city |-> handler.m.city])]
    /\ UNCHANGED <<token, scope_user, ws, subscribed_cities, update_task,
                   received>>
    /\ UNCHANGED outsideWs

\* periodic_updates: sleep(5), the heartbeat check, the update check and the
\* list(self.subscribed_cities.items()) the cycle iterates.
Tick ==
    /\ update_task.pc = "sleep"
    /\ LET hb == Aged(update_task.hb_age, 5)
           up == Aged(update_task.upd_age, 5)
           beat == hb >= 30
           cycle == up >= 25
           queue == IF cycle THEN subscribed_cities ELSE << >>
       IN /\ outbound' = IF beat THEN Message("heartbeat", Absent) ELSE outbound
          /\ update_task' =
                [pc |-> IF queue # << >> THEN "fetch" ELSE "sleep",
                 queue |-> queue,
                 hb_age |-> IF beat THEN 0 ELSE hb,
                 upd_age |-> IF cycle THEN 0 ELSE up,
                 first_heartbeat |-> update_task.first_heartbeat /\ ~beat]
    /\ UNCHANGED <<token, scope_user, ws, subscribed_cities, handler, received>>
    /\ UNCHANGED outsideWs

\* periodic_updates: send_aqi_update for the next city of the cycle
CycleUpdate(d, res) ==
    /\ update_task.pc = "fetch"
    /\ outbound' = Message(UpdateType(res), Head(update_task.queue).city)
    /\ update_task' = [update_task EXCEPT !.pc = "pause",
                         !.hb_age = Aged(@, d), !.upd_age = Aged(@, d)]
    /\ UNCHANGED <<token, scope_user, ws, subscribed_cities, handler, received>>
    /\ UNCHANGED outsideWs

\* periodic_updates: sleep(1) between the cities of a cycle
CyclePause ==
    /\ update_task.pc = "pause"
    /\ update_task' = [update_task EXCEPT
                         !.pc = IF Len(update_task.queue) > 1 THEN "fetch" ELSE "sleep",
                         !.queue = Tail(@),
                         !.hb_age = Aged(@, 1), !.upd_age = Aged(@, 1)]
    /\ UNCHANGED <<token, scope_user, ws, subscribed_cities, handler, outbound,
                   received>>
    /\ UNCHANGED outsideWs

\* periodic_updates, lines 175-180 and 199-200: self.send raises, for the
\* heartbeat that is due or for both messages of send_aqi_update; the
\* exception leaves the while loop through the 'except Exception' around it
\* and the task ends.
SendRaises ==
    /\ \/ update_task.pc = "sleep" /\ Aged(update_task.hb_age, 5) >= 30
       \/ update_task.pc = "fetch"
    /\ update_task' = [update_task EXCEPT !.pc = "ended", !.queue = << >>]
    /\ UNCHANGED <<token, scope_user, ws, subscribed_cities, handler, outbound,
                   received>>
    /\ UNCHANGED outsideWs

\* No connection, for the behaviours of the other parts.
WsAtRest ==
    /\ token = "none"
    /\ scope_user = "unset"
    /\ ws = [phase |-> "new", accepted |-> FALSE, close_code |-> 0]
    /\ subscribed_cities = << >>
    /\ update_task = NoTask
    /\ handler = IdleHandler
    /\ outbound = NoMessage
    /\ received = 0

(***************************************************************************)
(* Part 4.  The MQTT listener (sensors/management/commands/mqtt_listener). *)
(***************************************************************************)
MaxChanges == 2                  \* changes of brokers and configurations
MqttAgeCap == 30                 \* seconds at which the refresh age saturates
CONFIG_CHECK_INTERVAL == 30      \* --check-interval, default
INITIAL_RECONNECT_DELAY == 5     \* self.reconnect_delay
MAX_RECONNECT_DELAY == 60        \* self.max_reconnect_delay

Hosts == {"h1", "h2"}
\* The order in which the configurations query returns the users' rows.
UserSeq == <<"u1", "u2">>

NoWrapper == [present |-> FALSE, connected |-> FALSE,
              reconnect_delay |-> INITIAL_RECONNECT_DELAY, link |-> "none",
              host |-> "none", config_is_active |-> FALSE]

\* MQTTClientWrapper.__init__
NewWrapper(h) == [present |-> TRUE, connected |-> FALSE,
                  reconnect_delay |-> INITIAL_RECONNECT_DELAY, link |-> "none",
                  host |-> h, config_is_active |-> TRUE]

\* MQTTClientWrapper.connect: the network loop starts and waits for the
\* broker's CONNACK, or client.connect raises and connected is set False.
ConnectCall(w, reach) ==
    IF reach THEN [w EXCEPT !.link = "pending"]
    ELSE [w EXCEPT !.link = "none", !.connected = FALSE]

\* MQTTClientWrapper.disconnect
DisconnectCall(w) == [w EXCEPT !.link = "stopped", !.connected = FALSE]

\* min(self.reconnect_delay * 2, self.max_reconnect_delay)
Backoff(d) == IF d * 2 < MAX_RECONNECT_DELAY THEN d * 2 ELSE MAX_RECONNECT_DELAY

\* The comparison of the old configuration with the new one left out.
UpdatedWrapper_KeepsChanged(u, cl, act, host, reach) ==
    IF ~act[u] THEN NoWrapper
    ELSE IF ~cl[u].present
    THEN ConnectCall(NewWrapper(host[u]), reach[u])
    ELSE [cl[u] EXCEPT !.config_is_active = TRUE]

\* update_clients: what becomes of one user's entry.
UpdatedWrapper(u, cl, act, host, reach) ==
    IF ~act[u] THEN NoWrapper
    ELSE IF ~cl[u].present \/ cl[u].host # host[u]
    THEN ConnectCall(NewWrapper(host[u]), reach[u])
    ELSE [cl[u] EXCEPT !.config_is_active = TRUE]

\* update_clients: the keys of self.clients afterwards.
UpdatedOrder(order, act) ==
    LET kept == SelectSeq(order, LAMBDA u : act[u])
        IsKept(u) == \E x \in 1..Len(kept) : kept[x] = u
    IN kept \o SelectSeq(UserSeq, LAMBDA u : act[u] /\ ~IsKept(u))

MqttAged(a, d) == IF a + d > MqttAgeCap THEN MqttAgeCap ELSE a + d

MainAtStart == [pc |-> "start", todo |-> << >>, cur |-> "none", tmp |-> 0,
                check_age |-> 0]

MqttInit ==
    /\ cfg_active \in [Users -> BOOLEAN]
    /\ cfg_host = [u \in Users |-> "h1"]
    /\ reachable \in [Users -> BOOLEAN]
    /\ clients = [u \in Users |-> NoWrapper]
    /\ client_order = << >>
    /\ main = MainAtStart
    /\ changes = 0

\* handle(): the initial update_clients()
StartListener ==
    /\ main.pc = "start"
    /\ clients' = [u \in Users |->
                     UpdatedWrapper(u, clients, cfg_active, cfg_host, reachable)]
    /\ client_order' = UpdatedOrder(client_order, cfg_active)
    /\ main' = [main EXCEPT !.pc = "sleep"]
    /\ UNCHANGED <<cfg_active, cfg_host, reachable, changes>>
    /\ UNCHANGED outsideMqtt

\* handle(): sleep(5), the periodic update_clients(), and the
\* list(self.clients.items()) of check_reconnections
Wake ==
    /\ main.pc = "sleep"
    /\ LET age == MqttAged(main.check_age, 5)
           refresh == age >= CONFIG_CHECK_INTERVAL
           cl == IF refresh
                 THEN [u \in Users |->
                         UpdatedWrapper(u, clients, cfg_active, cfg_host, reachable)]
                 ELSE clients
           order == IF refresh THEN UpdatedOrder(client_order, cfg_active)
                    ELSE client_order
       IN /\ clients' = cl
          /\ client_order' = order
          /\ main' = [main EXCEPT !.pc = "check", !.todo = order,
                                  !.check_age = IF refresh THEN 0 ELSE age]
    /\ UNCHANGED <<cfg_active, cfg_host, reachable, changes>>
    /\ UNCHANGED outsideMqtt

\* check_reconnections: the next wrapper of the list
CheckNext ==
    /\ main.pc = "check"
    /\ IF main.todo = << >>
       THEN main' = [main EXCEPT !.pc = "sleep"]
       ELSE LET w == clients[Head(main.todo)]
            IN IF ~w.connected /\ w.config_is_active
               THEN main' = [main EXCEPT !.pc = "while", !.cur = Head(main.todo),
                                         !.todo = Tail(@)]
               ELSE main' = [main EXCEPT !.todo = Tail(@)]
    /\ UNCHANGED <<cfg_active, cfg_host, reachable, clients, client_order, changes>>
    /\ UNCHANGED outsideMqtt

\* reconnect(): the while test, then self.disconnect()
ReconnectWhile ==
    /\ main.pc = "while"
    /\ LET w == clients[main.cur]
       IN IF ~w.connected /\ w.config_is_active
          THEN /\ clients' = [clients EXCEPT ![main.cur] = DisconnectCall(w)]
               /\ main' = [main EXCEPT !.pc = "delay"]
          ELSE /\ clients' = clients
               /\ main' = [main EXCEPT !.pc = "check", !.cur = "none"]
    /\ UNCHANGED <<cfg_active, cfg_host, reachable, client_order, changes>>
    /\ UNCHANGED outsideMqtt

\* reconnect(): time.sleep(self.reconnect_delay), then self.connect()
ReconnectConnect ==
    /\ main.pc = "delay"
    /\ clients' = [clients EXCEPT ![main.cur] = ConnectCall(@, reachable[main.cur])]
    /\ main' = [main EXCEPT !.pc = "wait",
                  !.check_age = MqttAged(@, clients[main.cur].reconnect_delay)]
    /\ UNCHANGED <<cfg_active, cfg_host, reachable, client_order, changes>>
    /\ UNCHANGED outsideMqtt

\* reconnect(): time.sleep(2), then the test of self.connected
ReconnectTest ==
    /\ main.pc = "wait"
    /\ main' = [main EXCEPT
                  !.pc = IF ~clients[main.cur].connected THEN "read" ELSE "while",
                  !.check_age = MqttAged(@, 2)]
    /\ UNCHANGED <<cfg_active, cfg_host, reachable, clients, client_order, changes>>
    /\ UNCHANGED outsideMqtt

\* reconnect(): the read of self.reconnect_delay in the backoff assignment
BackoffRead ==
    /\ main.pc = "read"
    /\ main' = [main EXCEPT !.pc = "write", !.tmp = clients[main.cur].reconnect_delay]
    /\ UNCHANGED <<cfg_active, cfg_host, reachable, clients, client_order, changes>>
    /\ UNCHANGED outsideMqtt

\* reconnect(): the write of self.reconnect_delay in the backoff assignment
BackoffWrite ==
    /\ main.pc = "write"
    /\ clients' = [clients EXCEPT ![main.cur].reconnect_delay = Backoff(main.tmp)]
    /\ main' = [main EXCEPT !.pc = "while", !.tmp = 0]
    /\ UNCHANGED <<cfg_active, cfg_host, reachable, client_order, changes>>
    /\ UNCHANGED outsideMqtt

\* on_connect, on the client's network thread
OnConnect(u, rc) ==
    /\ clients[u].link = "pending"
    /\ clients' = [clients EXCEPT ![u] =
                     IF rc = 0
                     THEN [@ EXCEPT !.connected = TRUE,
                                    !.reconnect_delay = INITIAL_RECONNECT_DELAY,
                                    !.link = "up"]
                     ELSE [@ EXCEPT !.connected = FALSE, !.link = "refused"]]
    /\ UNCHANGED <<cfg_active, cfg_host, reachable, client_order, main, changes>>
    /\ UNCHANGED outsideMqtt

\* on_disconnect, on the client's network thread
OnDisconnect(u) ==
    /\ clients[u].link = "up"
    /\ ~reachable[u]
    /\ clients' = [clients EXCEPT ![u] = [@ EXCEPT !.connected = FALSE, !.link = "lost"]]
    /\ UNCHANGED <<cfg_active, cfg_host, reachable, client_order, main, changes>>
    /\ UNCHANGED outsideMqtt

\* A broker goes down or comes back.
BrokerChange(u) ==
    /\ changes < MaxChanges
    /\ changes' = changes + 1
    /\ reachable' = [reachable EXCEPT ![u] = ~@]
    /\ UNCHANGED <<cfg_active, cfg_host, clients, client_order, main>>
    /\ UNCHANGED outsideMqtt

\* The configuration API: the user switches the configuration on or off.
ConfigToggle(u) ==
    /\ changes < MaxChanges
    /\ changes' = changes + 1
    /\ cfg_active' = [cfg_active EXCEPT ![u] = ~@]
    /\ UNCHANGED <<cfg_host, reachable, clients, client_order, main>>
    /\ UNCHANGED outsideMqtt

\* The configuration API: the user changes the broker's host.
ConfigEdit(u, h) ==
    /\ changes < MaxChanges
    /\ h # cfg_host[u]
    /\ changes' = changes + 1
    /\ cfg_host' = [cfg_host EXCEPT ![u] = h]
    /\ UNCHANGED <<cfg_active, reachable, clients, client_order, main>>
    /\ UNCHANGED outsideMqtt

\* No listener process, for the behaviours of the other parts.
MqttAtRest ==
    /\ cfg_active = [u \in Users |-> TRUE]
    /\ cfg_host = [u \in Users |-> "h1"]
    /\ reachable = [u \in Users |-> TRUE]
    /\ clients = [u \in Users |-> NoWrapper]
    /\ client_order = << >>
    /\ main = MainAtStart
    /\ changes = 0

(***************************************************************************)
(* Part 5.  The accounts service (accounts/models.py, accounts/views.py).  *)
(***************************************************************************)
MaxClock == 4          \* half hours the clock runs through
MaxTokens == 3         \* random tokens generated in one behaviour
HOUR == 2              \* timezone.timedelta(hours=1), in half hours

\* Every registered user's email is the user's name here; one more address
\* belongs to nobody.
Emails == Users \cup {"nobody"}
RefreshIds == {"r1", "r2"}
NoToken == 0
NoTime == -1
Passwords == {"old", "new"}

NewAccount == [is_verified |-> FALSE, password |-> "old",
               verification_token |-> NoToken,
               verification_token_created |-> NoTime,
               password_reset_token |-> NoToken,
               password_reset_expires |-> NoTime]

\* The expiry check leaves the clock out.
is_password_reset_token_valid_NoExpiry(user, tok, now) ==
    /\ user.password_reset_token # NoToken
    /\ user.password_reset_expires # NoTime
    /\ user.password_reset_token = tok

\* User.is_password_reset_token_valid
is_password_reset_token_valid(user, tok, now) ==
    IF user.password_reset_token = NoToken \/ user.password_reset_expires = NoTime
    THEN FALSE
    ELSE IF user.password_reset_token # tok THEN FALSE
    ELSE IF now > user.password_reset_expires THEN FALSE
    ELSE TRUE

\* User.objects.get(password_reset_token=token)
UsersWithResetToken(acc, tok) ==
    {u \in Users : acc[u].password_reset_token = tok}

Response(status, detail) == [status |-> status, detail |-> detail]

\* ForgotPasswordView.post: the response for a well-formed email.
ForgotPasswordResponse(email) ==
    IF email \in Users
    THEN Response(200, "If the email exists, a password reset email has been sent.")
    ELSE Response(200, "If the email exists, a password reset email has been sent.")

\* ResendVerificationView.post: the response for an email.
ResendVerificationResponse(acc, email) ==
    IF email \in Users
    THEN IF acc[email].is_verified
         THEN Response(200, "Email is already verified.")
         ELSE Response(200, "Verification email sent.")
    ELSE Response(200, "If the email exists, a verification email has been sent.")

\* RefreshToken(refresh_token): the token verifies and is not blacklisted.
RefreshTokenAccepted_IgnoresBlacklist(t, out, black) == t \in out

RefreshTokenAccepted(t, out, black) == t \in out /\ t \notin black

\* arg: the email or refresh token of the request; reset: its reset token;
\* n tells a request from the one before it.
NoExchange == [endpoint |-> "none", arg |-> "none", reset |-> NoToken,
               authenticated |-> FALSE, status |-> 0, detail |-> "none", n |-> 0]
Exchange(endpoint, arg, authenticated, r) ==
    [endpoint |-> endpoint, arg |-> arg, reset |-> NoToken,
     authenticated |-> authenticated,
     status |-> r.status, detail |-> r.detail, n |-> 1 - exchange.n]
ResetExchange(tok, r) ==
    [endpoint |-> "reset-password", arg |-> "none", reset |-> tok,
     authenticated |-> FALSE,
     status |-> r.status, detail |-> r.detail, n |-> 1 - exchange.n]

AuthInit ==
    /\ clock = 0
    /\ accounts \in [Users -> {NewAccount, [NewAccount EXCEPT !.is_verified = TRUE]}]
    /\ next_token = 0
    /\ outstanding = {}
    /\ blacklisted = {}
    /\ exchange = NoExchange
    /\ revoked = {}
    /\ spent = {}

\* Time passes.
ClockTick ==
    /\ clock < MaxClock
    /\ clock' = clock + 1
    /\ UNCHANGED <<accounts, next_token, outstanding, blacklisted, exchange,
                   revoked, spent>>
    /\ UNCHANGED outsideAuth

\* LoginView.post
Login(u, pw, r) ==
    /\ r \notin outstanding
    /\ IF u \in Users /\ userActive[u] /\ accounts[u].password = pw
       THEN /\ outstanding' = outstanding \cup {r}
            /\ exchange' = Exchange("login", u, FALSE, Response(200, "tokens"))
       ELSE /\ outstanding' = outstanding
            /\ exchange' = Exchange("login", u, FALSE,
                                    Response(401, "Invalid email or password."))
    /\ UNCHANGED <<clock, accounts, next_token, blacklisted, revoked, spent>>
    /\ UNCHANGED outsideAuth

\* RefreshTokenView.post
Refresh(t) ==
    /\ exchange' = Exchange("refresh", t, FALSE,
          IF t = "missing" THEN Response(400, "Refresh token is required.")
          ELSE IF RefreshTokenAccepted(t, outstanding, blacklisted)
          THEN Response(200, "tokens")
          ELSE Response(401, "Invalid or expired refresh token."))
    /\ UNCHANGED <<clock, accounts, next_token, outstanding, blacklisted,
                   revoked, spent>>
    /\ UNCHANGED outsideAuth

\* LogoutView.post, behind permission_classes = [IsAuthenticated]
Logout(authenticated, t) ==
    /\ IF ~authenticated
       THEN /\ exchange' = Exchange("logout", t, authenticated,
                              Response(401, "Authentication credentials were not provided."))
            /\ UNCHANGED <<blacklisted, revoked>>
       ELSE IF t = "missing"
       THEN /\ exchange' = Exchange("logout", t, authenticated,
                              Response(400, "Refresh token is required."))
            /\ UNCHANGED <<blacklisted, revoked>>
       ELSE IF RefreshTokenAccepted(t, outstanding, blacklisted)
       THEN /\ blacklisted' = blacklisted \cup {t}
            /\ revoked' = revoked \cup {t}
            /\ exchange' = Exchange("logout", t, authenticated,
                              Response(200, "Successfully logged out."))
       ELSE /\ exchange' = Exchange("logout", t, authenticated,
                              Response(400, "Invalid refresh token."))
            /\ UNCHANGED <<blacklisted, revoked>>
    /\ UNCHANGED <<clock, accounts, next_token, outstanding, spent>>
    /\ UNCHANGED outsideAuth

\* ForgotPasswordView.post with a well-formed email
ForgotPassword(email) ==
    /\ email \in Users => next_token < MaxTokens
    /\ IF email \in Users
       THEN /\ next_token' = next_token + 1
            /\ accounts' = [accounts EXCEPT
                              ![email].password_reset_token = next_token + 1,
                              ![email].password_reset_expires = clock + HOUR]
       ELSE UNCHANGED <<accounts, next_token>>
    /\ exchange' = Exchange("forgot-password", email, FALSE,
                            ForgotPasswordResponse(email))
    /\ UNCHANGED <<clock, outstanding, blacklisted, revoked, spent>>
    /\ UNCHANGED outsideAuth

\* ResendVerificationView.post
ResendVerification(email) ==
    /\ (email \in Users /\ ~accounts[email].is_verified) => next_token < MaxTokens
    /\ IF email = "missing"
       THEN /\ exchange' = Exchange("resend-verification", email, FALSE,
                                    Response(400, "Email is required."))
            /\ UNCHANGED <<accounts, next_token>>
       ELSE /\ exchange' = Exchange("resend-verification", email, FALSE,
                                    ResendVerificationResponse(accounts, email))
            /\ IF email \in Users /\ ~accounts[email].is_verified
               THEN /\ next_token' = next_token + 1
                    /\ accounts' = [accounts EXCEPT
                                      ![email].verification_token = next_token + 1,
                                      ![email].verification_token_created = clock]
               ELSE UNCHANGED <<accounts, next_token>>
    /\ UNCHANGED <<clock, outstanding, blacklisted, revoked, spent>>
    /\ UNCHANGED outsideAuth

\* User.objects.get(verification_token=token)
UsersWithVerificationToken(acc, tok) ==
    {u \in Users : acc[u].verification_token = tok}

\* The user marked verified with the token left in place.
VerifiedAccount_KeepsToken(user) == [user EXCEPT !.is_verified = TRUE]

\* VerifyEmailView.post, lines 202-205: the three fields it saves.
VerifiedAccount(user) ==
    [user EXCEPT !.is_verified = TRUE,
                 !.verification_token = NoToken,
                 !.verification_token_created = NoTime]

\* VerifyEmailView.post; the request's token is kept in the field 'reset'.
VerifyEmail(tok) ==
    /\ IF tok = NoToken
       THEN /\ exchange' = [ResetExchange(tok, Response(400, "Verification token is required."))
                               EXCEPT !.endpoint = "verify-email"]
            /\ UNCHANGED accounts
       ELSE IF UsersWithVerificationToken(accounts, tok) = {}
       THEN /\ exchange' = [ResetExchange(tok, Response(400, "Invalid verification token."))
                               EXCEPT !.endpoint = "verify-email"]
            /\ UNCHANGED accounts
       ELSE LET u == CHOOSE x \in UsersWithVerificationToken(accounts, tok) : TRUE
            IN IF accounts[u].is_verified
               THEN /\ exchange' = [ResetExchange(tok, Response(200, "Email is already verified."))
                                       EXCEPT !.endpoint = "verify-email"]
                    /\ UNCHANGED accounts
               ELSE /\ accounts' = [accounts EXCEPT ![u] = VerifiedAccount(accounts[u])]
                    /\ exchange' = [ResetExchange(tok, Response(200, "Email successfully verified."))
                                       EXCEPT !.endpoint = "verify-email"]
    /\ UNCHANGED <<clock, next_token, outstanding, blacklisted, revoked, spent>>
    /\ UNCHANGED outsideAuth

\* The admin's change form of a user (accounts/admin.py): is_verified is
\* ticked, the token fields are left as they are.
AdminVerifies(u) ==
    /\ ~accounts[u].is_verified
    /\ accounts' = [accounts EXCEPT ![u].is_verified = TRUE]
    /\ UNCHANGED <<clock, next_token, outstanding, blacklisted, exchange, revoked, spent>>
    /\ UNCHANGED outsideAuth

\* ResetPasswordView.post
ResetPassword(tok, new_password) ==
    /\ IF tok = NoToken \/ new_password = "weak"
       THEN \* serializer.is_valid(raise_exception=True)
            /\ exchange' = ResetExchange(tok, Response(400, "validation error"))
            /\ UNCHANGED <<accounts, spent>>
       ELSE IF UsersWithResetToken(accounts, tok) = {}
       THEN /\ exchange' = ResetExchange(tok, Response(400, "Invalid password reset token."))
            /\ UNCHANGED <<accounts, spent>>
       ELSE LET u == CHOOSE x \in UsersWithResetToken(accounts, tok) : TRUE
            IN IF ~is_password_reset_token_valid(accounts[u], tok, clock)
               THEN /\ exchange' = ResetExchange(tok, Response(400, "Invalid or expired password reset token."))
                    /\ UNCHANGED <<accounts, spent>>
               ELSE /\ accounts' = [accounts EXCEPT
                                      ![u].password = new_password,
                                      ![u].password_reset_token = NoToken,
                                      ![u].password_reset_expires = NoTime]
                    /\ spent' = spent \cup {tok}
                    /\ exchange' = ResetExchange(tok, Response(200, "Password successfully reset."))
    /\ UNCHANGED <<clock, next_token, outstanding, blacklisted, revoked>>
    /\ UNCHANGED outsideAuth

\* An untouched accounts service, for the behaviours of the other parts.
AuthAtRest ==
    /\ clock = 0
    /\ accounts = [u \in Users |-> NewAccount]
    /\ next_token = 0
    /\ outstanding = {}
    /\ blacklisted = {}
    /\ exchange = NoExchange
    /\ revoked = {}
    /\ spent = {}

(***************************************************************************)
(* Part 6.  The REST endpoints of the aqi app: the subscription viewset,   *)
(* the chat endpoint and the batch fetch.  Every caller is authenticated   *)
(* (permission_classes = [IsAuthenticated]); an exception that leaves a    *)
(* view reaches core.exceptions.custom_exception_handler.                  *)
(***************************************************************************)
MaxPk == 2             \* subscriptions created in one behaviour
MaxMails == 1          \* alert emails sent in one behaviour
MaxBatchFaults == 2    \* failed fetches within one batch request

\* round(x) of Python 3 for x = tenths / 10: the nearest integer, a half
\* going to the even neighbour.
PyRound(tenths) ==
    LET q == tenths \div 10
        r == tenths % 10
    IN  IF r < 5 THEN q
        ELSE IF r > 5 THEN q + 1
        ELSE IF q % 2 = 0 THEN q ELSE q + 1

Pks == 1..MaxPk
NoPk == 0
NoRow == [state |-> "free", user |-> "nobody", city |-> "none", is_active |-> FALSE]

\* The JSON body of a response, by its keys: error is "true" for the boolean
\* True, "message" for a string, "absent" for no such key; detail is
\* "present" or "absent".
ApiResponse(endpoint, caller, pk, status, error, detail) ==
    [endpoint |-> endpoint, caller |-> caller, pk |-> pk, status |-> status,
     error |-> error, detail |-> detail, ids |-> {}, aqi_value |-> NoAqi,
     given |-> "unused", tenths |-> 0, fetch |-> "unused", mail |-> "unused",
     n |-> 0, items |-> << >>]

NoApi == ApiResponse("none", "nobody", NoPk, 0, "absent", "absent")

\* custom_exception_handler: every exception becomes {error: True, detail: ...}.
StatusOf(exc) ==
    CASE exc = "Http404" -> 404
      [] exc = "ValidationError" -> 400
      [] OTHER -> 500

custom_exception_handler(endpoint, caller, pk, exc) ==
    ApiResponse(endpoint, caller, pk, StatusOf(exc), "true", "present")

Success(endpoint, caller, pk, status) ==
    ApiResponse(endpoint, caller, pk, status, "absent", "absent")

\* Response({'error': '<message>'}, status=...) of send_notification and chat.
ErrorString(endpoint, caller, pk, status) ==
    ApiResponse(endpoint, caller, pk, status, "message", "absent")

Live(subs) == {k \in Pks : subs[k].state = "live"}

get_queryset_Everyone(subs, user) == Live(subs)

\* CitySubscription.objects.filter(user=self.request.user)
get_queryset(subs, user) == {k \in Live(subs) : subs[k].user = user}

\* get_object(): the row of the queryset with this pk, or Http404.
Found(user, k) == k \in get_queryset(subscriptions, user)

NotFound(endpoint, user, k) ==
    /\ ~Found(user, k)
    /\ api' = custom_exception_handler(endpoint, user, k, "Http404")
    /\ UNCHANGED <<subscriptions, saved_locations, outbox>>

\* Another row of the user with this city: unique_together (user, city, country).
Duplicate(user, k, city) ==
    \E j \in get_queryset(subscriptions, user) : j # k /\ subscriptions[j].city = city

FreePks == {k \in Pks : subscriptions[k].state = "free"}

ApiIdle == batch.pc = "idle"

\* GET /api/aqi/subscriptions/
List(user) ==
    /\ ApiIdle
    /\ api' = [Success("list", user, NoPk, 200) EXCEPT
                   !.ids = get_queryset(subscriptions, user)]
    /\ UNCHANGED <<subscriptions, saved_locations, outbox, cache, batch>>
    /\ UNCHANGED outsideApi

\* POST /api/aqi/subscriptions/: validate() refuses a second subscription of
\* the caller to the city; perform_create saves with user = request.user.
Create(user, city) ==
    /\ ApiIdle
    /\ FreePks # {}
    /\ LET k == CHOOSE j \in FreePks : \A i \in FreePks : j <= i
       IN  IF Duplicate(user, NoPk, city)
           THEN /\ api' = custom_exception_handler("create", user, NoPk, "ValidationError")
                /\ UNCHANGED subscriptions
           ELSE /\ subscriptions' = [subscriptions EXCEPT ![k] =
                       [state |-> "live", user |-> user, city |-> city,
                        is_active |-> TRUE]]
                /\ api' = Success("create", user, k, 201)
    /\ UNCHANGED <<saved_locations, outbox, cache, batch>>
    /\ UNCHANGED outsideApi

\* GET /api/aqi/subscriptions/{id}/
Retrieve(user, k) ==
    /\ ApiIdle
    /\ \/ NotFound("retrieve", user, k)
       \/ /\ Found(user, k)
          /\ api' = Success("retrieve", user, k, 200)
          /\ UNCHANGED <<subscriptions, saved_locations, outbox>>
    /\ UNCHANGED <<cache, batch>>
    /\ UNCHANGED outsideApi

\* PUT/PATCH /api/aqi/subscriptions/{id}/: the row of the caller is saved
\* with the validated city and is_active; a city the caller already has on
\* another row fails the unique constraint when saved.
Update(user, k, city, active) ==
    /\ ApiIdle
    /\ \/ NotFound("update", user, k)
       \/ /\ Found(user, k)
          /\ IF Duplicate(user, k, city)
             THEN /\ api' = custom_exception_handler("update", user, k, "IntegrityError")
                  /\ UNCHANGED subscriptions
             ELSE /\ subscriptions' = [subscriptions EXCEPT
                         ![k].city = city, ![k].is_active = active]
                  /\ api' = Success("update", user, k, 200)
          /\ UNCHANGED <<saved_locations, outbox>>
    /\ UNCHANGED <<cache, batch>>
    /\ UNCHANGED outsideApi

\* DELETE /api/aqi/subscriptions/{id}/
Destroy(user, k) ==
    /\ ApiIdle
    /\ \/ NotFound("destroy", user, k)
       \/ /\ Found(user, k)
          /\ subscriptions' = [subscriptions EXCEPT ![k] = [NoRow EXCEPT !.state = "deleted"]]
          /\ api' = Success("destroy", user, k, 204)
          /\ UNCHANGED <<saved_locations, outbox>>
    /\ UNCHANGED <<cache, batch>>
    /\ UNCHANGED outsideApi

\* PATCH /api/aqi/subscriptions/{id}/toggle/
Toggle(user, k) ==
    /\ ApiIdle
    /\ \/ NotFound("toggle", user, k)
       \/ /\ Found(user, k)
          /\ subscriptions' = [subscriptions EXCEPT
                 ![k].is_active = ~subscriptions[k].is_active]
          /\ api' = Success("toggle", user, k, 200)
          /\ UNCHANGED <<saved_locations, outbox>>
    /\ UNCHANGED <<cache, batch>>
    /\ UNCHANGED outsideApi

\* request.data.get('aqi_value'): absent, a number (given in tenths) or a
\* text that float() refuses.
Given == {"absent", "number", "text"}
SuppliedTenths == {795, 1205}
\* fetch_current_aqi: a reading with its 'aqi', a reading without one, None,
\* or an exception.
FetchOutcomes == {"data", "no_aqi", "none", "raises"}
\* aqi_data['aqi'] of a fetched reading.
NotificationReadings == {160}

\* Lines 85-100: the value that is emailed and returned.
NotificationValue(given, tenths, reading) ==
    IF given = "absent" THEN reading ELSE PyRound(tenths)

\* Lines 72-99 and 143-148: the status of the early return, 0 when the view
\* goes on to the SavedLocation and the email.
NotificationStops(given, fetch) ==
    CASE fetch = "raises" -> 500
      [] fetch = "none" -> 400
      [] given = "text" -> 500
      [] given = "absent" /\ fetch = "no_aqi" -> 400
      [] OTHER -> 0

\* POST /api/aqi/subscriptions/{id}/send_notification/
SendNotification(user, k, given, tenths, fetch, reading, mail) ==
    /\ ApiIdle
    /\ \/ NotFound("send_notification", user, k)
       \/ /\ Found(user, k)
          /\ LET stop == NotificationStops(given, fetch)
                 value == NotificationValue(given, tenths, reading)
                 asked == [ErrorString("send_notification", user, k, 500) EXCEPT
                              !.given = given, !.tenths = tenths, !.fetch = fetch,
                              !.mail = mail]
             IN  IF stop # 0
                 THEN /\ api' = [asked EXCEPT !.status = stop]
                      /\ UNCHANGED <<saved_locations, outbox>>
                 ELSE /\ saved_locations' = saved_locations \cup
                              {<<user, subscriptions[k].city>>}
                      /\ IF mail = "sent"
                         THEN /\ Len(outbox) < MaxMails
                              /\ outbox' = Append(outbox,
                                     [to |-> user, city |-> subscriptions[k].city,
                                      aqi |-> value])
                              /\ api' = [asked EXCEPT !.status = 200,
                                            !.error = "absent", !.aqi_value = value]
                         ELSE /\ api' = asked
                              /\ UNCHANGED outbox
          /\ UNCHANGED subscriptions
    /\ UNCHANGED <<cache, batch>>
    /\ UNCHANGED outsideApi

\* POST /api/aqi/chat/
ChatPost(user, rag, question, outcome) ==
    /\ ApiIdle
    /\ api' = CASE rag = "missing" -> ErrorString("chat", user, NoPk, 503)
                [] question = "" -> ErrorString("chat", user, NoPk, 400)
                [] outcome = "raises" -> ErrorString("chat", user, NoPk, 500)
                [] OTHER -> Success("chat", user, NoPk, 200)
    /\ UNCHANGED <<subscriptions, saved_locations, outbox, cache, batch>>
    /\ UNCHANGED outsideApi

\* BatchLocationSerializer.locations: min_length and max_length.
BATCH_MIN_LENGTH == 1
BATCH_MAX_LENGTH == 50
BatchSizes == {0, 1, 2, 3, BATCH_MAX_LENGTH, BATCH_MAX_LENGTH + 1}
\* The coordinate of the i-th location of a request: the locations alternate
\* between two valid coordinates, so that a later one can find the reading
\* of an earlier one in the cache.
Coords == {1, 2}
LocationCoord(i) == IF i % 2 = 1 THEN 1 ELSE 2

NoBatch == [pc |-> "idle", caller |-> "nobody", n |-> 0, results |-> << >>,
            fetched |-> << >>, faults |-> 0]

\* POST /api/aqi/batch/, lines 342-346: is_valid(raise_exception=True).
BatchPost(user, n) ==
    /\ ApiIdle
    /\ IF n < BATCH_MIN_LENGTH \/ n > BATCH_MAX_LENGTH
       THEN /\ api' = [custom_exception_handler("batch", user, NoPk, "ValidationError")
                          EXCEPT !.n = n]
            /\ UNCHANGED batch
       ELSE /\ batch' = [NoBatch EXCEPT !.pc = "loop", !.caller = user, !.n = n]
            /\ api' = NoApi
    /\ UNCHANGED <<subscriptions, saved_locations, outbox, cache>>
    /\ UNCHANGED outsideApi

ErrorItem_Unflagged(coord) == [error |-> FALSE, coord |-> coord]

\* The item appended for a location whose fetch gave nothing or raised.
ErrorItem(coord) == [error |-> TRUE, coord |-> coord]

DataItem(coord) == [error |-> FALSE, coord |-> coord]

\* Lines 349-385: one pass of the loop, for the next location.
BatchLocation(outcome) ==
    /\ batch.pc = "loop"
    /\ Len(batch.results) < batch.n
    /\ LET coord == LocationCoord(Len(batch.results) + 1)
           how == CASE outcome = "raises" -> "raises"
                    [] coord \in cache -> "cache"
                    [] OTHER -> outcome
           item == IF how \in {"none", "raises"} THEN ErrorItem(coord)
                   ELSE DataItem(coord)
       IN  /\ how \in {"none", "raises"} => batch.faults < MaxBatchFaults
           /\ batch' = [batch EXCEPT
                  !.results = Append(@, item),
                  !.fetched = Append(@, how),
                  !.faults = IF how \in {"none", "raises"} THEN @ + 1 ELSE @]
           /\ cache' = IF how = "data" THEN cache \cup {coord} ELSE cache
    /\ UNCHANGED <<subscriptions, saved_locations, outbox, api>>
    /\ UNCHANGED outsideApi

\* Line 387: return Response(results).
BatchRespond ==
    /\ batch.pc = "loop"
    /\ Len(batch.results) = batch.n
    /\ api' = [Success("batch", batch.caller, NoPk, 200) EXCEPT
                  !.n = batch.n, !.items = batch.results]
    /\ batch' = [NoBatch EXCEPT !.fetched = batch.fetched]
    /\ UNCHANGED <<subscriptions, saved_locations, outbox, cache>>
    /\ UNCHANGED outsideApi

ApiAtRest ==
    /\ subscriptions = [k \in Pks |-> NoRow]
    /\ saved_locations = {}
    /\ outbox = << >>
    /\ cache = {}
    /\ batch = NoBatch
    /\ api = NoApi

(***************************************************************************)
(* Part 7.  The rankings stream: the generator event_stream of             *)
(* CityRankingsStreamView.get.  Ages are in seconds and saturate at the    *)
(* interval they are compared with.                                        *)
(***************************************************************************)
HEARTBEAT_INTERVAL == 30
UPDATE_INTERVAL == 60
SSE_SLEEP == 5
SlowRankings == 10       \* seconds a slow _fetch_rankings takes

RankingsTimes == {0, SlowRankings}

NoEvents == [first |-> "none", prev |-> "none", last |-> "none"]

\* yield of one event.
Emit(e) ==
    [first |-> IF events.first = "none" THEN e ELSE events.first,
     prev |-> events.last,
     last |-> e]

\* last_heartbeat = last_update = 0: both are older than their interval.
NewStream == [pc |-> "start", hb_age |-> HEARTBEAT_INTERVAL,
              upd_age |-> UPDATE_INTERVAL, retry |-> FALSE]

SseAged(s, d) ==
    [s EXCEPT !.hb_age = Min(@ + d, HEARTBEAT_INTERVAL),
              !.upd_age = Min(@ + d, UPDATE_INTERVAL)]

\* current_time - last_update >= update_interval or last_update == 0
UpdateDue == stream.upd_age >= UPDATE_INTERVAL

Open_Silent ==
    /\ client = "connected"
    /\ stream.pc = "start"
    /\ stream' = [stream EXCEPT !.pc = "top"]
    /\ UNCHANGED <<client, events>>
    /\ UNCHANGED outsideSse

\* Lines 98-99: the initial status event.
Open ==
    /\ client = "connected"
    /\ stream.pc = "start"
    /\ events' = Emit("status_connected")
    /\ stream' = [stream EXCEPT !.pc = "top"]
    /\ UNCHANGED client
    /\ UNCHANGED outsideSse

\* Lines 103-109: read the time, send the heartbeat when it is due.
HeartbeatCheck ==
    /\ stream.pc = "top"
    /\ IF stream.hb_age >= HEARTBEAT_INTERVAL
       THEN /\ events' = Emit("heartbeat")
            /\ stream' = [stream EXCEPT !.pc = "update", !.hb_age = 0]
       ELSE /\ stream' = [stream EXCEPT !.pc = "update"]
            /\ UNCHANGED events
    /\ UNCHANGED client
    /\ UNCHANGED outsideSse

\* Lines 112-115: the loading status when an update is due.
UpdateCheck ==
    /\ stream.pc = "update"
    /\ IF UpdateDue
       THEN /\ events' = Emit("status_loading")
            /\ stream' = [stream EXCEPT !.pc = "fetch"]
       ELSE /\ stream' = [stream EXCEPT !.pc = "sleep"]
            /\ UNCHANGED events
    /\ UNCHANGED client
    /\ UNCHANGED outsideSse

\* Lines 118-124: _fetch_rankings and json.dumps give the rankings event, or
\* raise; last_update is the time read at the top of the iteration.
FetchRankings(outcome, d) ==
    /\ stream.pc = "fetch"
    /\ IF outcome = "ok"
       THEN /\ events' = Emit("rankings")
            /\ stream' = [SseAged(stream, d) EXCEPT
                   !.pc = "sleep", !.upd_age = d, !.retry = FALSE]
       ELSE /\ stream' = [SseAged(stream, d) EXCEPT !.pc = "error", !.retry = TRUE]
            /\ UNCHANGED events
    /\ UNCHANGED client
    /\ UNCHANGED outsideSse

\* Line 127: time.sleep(5).
SseSleep ==
    /\ stream.pc = "sleep"
    /\ stream' = [SseAged(stream, SSE_SLEEP) EXCEPT !.pc = "top"]
    /\ UNCHANGED <<client, events>>
    /\ UNCHANGED outsideSse

\* Lines 133-136: the error event.
ErrorEvent ==
    /\ stream.pc = "error"
    /\ events' = Emit("error")
    /\ stream' = [stream EXCEPT !.pc = "error_sleep"]
    /\ UNCHANGED client
    /\ UNCHANGED outsideSse

AfterError_Closes == "closed"

\* Where the generator goes after the handler of Exception: the while loop.
AfterError == "top"

\* Line 137: time.sleep(5) of the handler.
ErrorSleep ==
    /\ stream.pc = "error_sleep"
    /\ stream' = [SseAged(stream, SSE_SLEEP) EXCEPT !.pc = AfterError]
    /\ UNCHANGED <<client, events>>
    /\ UNCHANGED outsideSse

\* The client goes away: GeneratorExit ends the generator (lines 129-132).
ClientDisconnect ==
    /\ client = "connected"
    /\ client' = "gone"
    /\ stream' = [stream EXCEPT !.pc = "closed"]
    /\ UNCHANGED events
    /\ UNCHANGED outsideSse

SseAtRest ==
    /\ client = "connected"
    /\ stream = NewStream
    /\ events = NoEvents

(***************************************************************************)
(* Part 8.  The calculations: WAQIService.build_worst_aqi_rankings from    *)
(* the first reading that passes its filters on, and the calculators of    *)
(* core/utils.py.                                                          *)
(***************************************************************************)
MaxStations == 3       \* station readings one build meets
MaxTopN == 2           \* largest top_n tried

\* City names as the provider spells them, and what f"{...}".lower() and
\* _extract_country_from_city_name make of them.
StationNames == {"Lahore, PK", "lahore, pk", "Karachi, PK", "Delhi, IN"}
Lower(name) ==
    CASE name = "Lahore, PK" -> "lahore, pk"
      [] name = "Karachi, PK" -> "karachi, pk"
      [] name = "Delhi, IN" -> "delhi, in"
      [] name = "PK" -> "pk"
      [] name = "IN" -> "in"
      [] name = "PM25" -> "pm25"
      [] OTHER -> name
CountryOf(name) ==
    CASE name = "lahore, pk" -> "pk"
      [] name = "Delhi, IN" -> "IN"
      [] OTHER -> "PK"

\* city_key = f"{city_name}_{country}".lower()
StationKey(name) == <<Lower(name), Lower(CountryOf(name))>>

\* aqi_data['aqi'] in tenths: 0, 79.5, 80, 120 and 120.5.
StationAqiTenths == {0, 795, 800, 1200, 1205}
StationReadings == [name : StationNames, tenths : StationAqiTenths]

\* Line 305: a reading without a positive index is skipped.
Usable(reading) == reading.tenths > 0

\* Lines 366-381: the observation of a reading.
Observation(reading) ==
    [city |-> reading.name, key |-> StationKey(reading.name),
     aqi |-> PyRound(reading.tenths), rank |-> 0]

Worse_KeepsLatest(observation, kept) == TRUE

\* Line 389: the new observation replaces the kept one.
Worse(observation, kept) == observation.aqi > kept.aqi

KeyIndex(map, key) ==
    IF \E i \in 1..Len(map) : map[i].key = key
    THEN CHOOSE i \in 1..Len(map) : map[i].key = key
    ELSE 0

\* Lines 384-390: city_aqi_map after the observation; a dict keeps the place
\* of a key whose value is replaced.
Deduplicated(map, observation) ==
    LET i == KeyIndex(map, observation.key)
    IN  IF i = 0 THEN Append(map, observation)
        ELSE IF Worse(observation, map[i]) THEN [map EXCEPT ![i] = observation]
        ELSE map

\* list.sort(key=..., reverse=True): stable, equal indices keep their order.
InsertDesc(x, sorted) ==
    LET before == {i \in 1..Len(sorted) : \A j \in 1..i : sorted[j].aqi > x.aqi}
        k == Cardinality(before)
    IN  SubSeq(sorted, 1, k) \o <<x>> \o SubSeq(sorted, k + 1, Len(sorted))

RECURSIVE SortedDesc(_)
SortedDesc(seq) ==
    IF seq = << >> THEN << >>
    ELSE InsertDesc(Head(seq), SortedDesc(Tail(seq)))

all_observations_Unsorted(map) == map

\* Lines 396-397.
all_observations(map) == SortedDesc(map)

\* Lines 400-405: ranks 1.. on the first top_n observations, which are returned.
TopRanked(sorted, n) ==
    [i \in 1..Min(n, Len(sorted)) |-> [sorted[i] EXCEPT !.rank = i]]

NotBuilt == [built |-> FALSE, list |-> << >>]

\* One station: lines 293-390.
ProcessStation ==
    /\ ~rankings.built
    /\ stations_processed < Len(station_readings)
    /\ stations_processed' = stations_processed + 1
    /\ LET reading == station_readings[stations_processed + 1]
       IN  city_aqi_map' = IF Usable(reading)
                           THEN Deduplicated(city_aqi_map, Observation(reading))
                           ELSE city_aqi_map
    /\ UNCHANGED <<station_readings, top_n, rankings, calc>>
    /\ UNCHANGED outsideCalc

\* Lines 395-405: the list that is returned.
ReturnRankings ==
    /\ ~rankings.built
    /\ stations_processed = Len(station_readings)
    /\ rankings' = [built |-> TRUE,
                    list |-> TopRanked(all_observations(city_aqi_map), top_n)]
    /\ UNCHANGED <<station_readings, top_n, stations_processed, city_aqi_map, calc>>
    /\ UNCHANGED outsideCalc

\* calculate_indoor_aqi: the sub-index of each gas, NoAqi standing for None.
Steps(v, thresholds, indices, beyond) ==
    IF \E i \in 1..Len(thresholds) : v <= thresholds[i]
    THEN indices[CHOOSE i \in 1..Len(thresholds) :
                     /\ v <= thresholds[i]
                     /\ \A j \in 1..(i - 1) : v > thresholds[j]]
    ELSE beyond

\* Lines 239-257.
CoIndex(v) == Steps(v, <<1, 4, 9, 15, 25, 35, 50, 100>>,
                    <<25, 50, 75, 100, 125, 150, 200, 300>>, 400)
\* Lines 262-278.
Co2Index(v) == Steps(v, <<400, 600, 1000, 1500, 2000, 2500, 5000>>,
                     <<25, 50, 75, 100, 125, 150, 200>>, 300)
\* Lines 283-299.
Ch4Index(v) == Steps(v, <<2, 10, 50, 100, 500, 1000, 5000>>,
                     <<25, 50, 75, 100, 125, 150, 200>>, 300)

\* aqi_values, in the order its keys are inserted.
IndoorValues(co, co2, ch4) ==
    (IF co = NoAqi THEN << >> ELSE <<[key |-> "CO", aqi |-> CoIndex(co)]>>)
    \o (IF co2 = NoAqi THEN << >> ELSE <<[key |-> "CO2", aqi |-> Co2Index(co2)]>>)
    \o (IF ch4 = NoAqi THEN << >> ELSE <<[key |-> "CH4", aqi |-> Ch4Index(ch4)]>>)

\* Lines 302-329: max(aqi_values, key=aqi_values.get) is the first key that
\* holds the largest value.
calculate_indoor_aqi(co, co2, ch4) ==
    LET values == IndoorValues(co, co2, ch4)
    IN  IF values = << >> THEN [aqi |-> NoAqi, dominant_pollutant |-> "None"]
        ELSE LET first == CHOOSE i \in 1..Len(values) :
                              /\ \A j \in 1..Len(values) : values[j].aqi <= values[i].aqi
                              /\ \A j \in 1..(i - 1) : values[j].aqi < values[i].aqi
             IN  [aqi |-> values[first].aqi,
                  dominant_pollutant |-> values[first].key]

CoSamples == {NoAqi, 1, 9, 40, 101}
Co2Samples == {NoAqi, 400, 1000, 2600, 5001}
Ch4Samples == {NoAqi, 2, 5, 5001}

IndoorCall(co, co2, ch4) ==
    [fn |-> "indoor", co |-> co, co2 |-> co2, ch4 |-> ch4, done |-> FALSE,
     aqi |-> NoAqi, dominant_pollutant |-> "None"]

CalculateIndoor ==
    /\ calc.fn = "indoor"
    /\ ~calc.done
    /\ LET out == calculate_indoor_aqi(calc.co, calc.co2, calc.ch4)
       IN  calc' = [calc EXCEPT !.done = TRUE, !.aqi = out.aqi,
                       !.dominant_pollutant = out.dominant_pollutant]
    /\ UNCHANGED <<station_readings, top_n, stations_processed, city_aqi_map,
                   rankings>>
    /\ UNCHANGED outsideCalc

\* calculate_epa_aqi: aqi_breakpoints, concentrations in hundredths of the
\* table's unit.  Lines 144-195.
Breakpoints(p) ==
    CASE p = "pm25" -> <<<<0, 1200, 0, 50>>, <<1210, 3540, 51, 100>>,
                         <<3550, 5540, 101, 150>>, <<5550, 15040, 151, 200>>,
                         <<15050, 25040, 201, 300>>, <<25050, 35040, 301, 400>>,
                         <<35050, 50040, 401, 500>>>>
      [] p = "pm10" -> <<<<0, 5400, 0, 50>>, <<5500, 15400, 51, 100>>,
                         <<15500, 25400, 101, 150>>, <<25500, 35400, 151, 200>>,
                         <<35500, 42400, 201, 300>>, <<42500, 50400, 301, 400>>,
                         <<50500, 60400, 401, 500>>>>
      [] p = "o3" -> <<<<0, 5400, 0, 50>>, <<5500, 7000, 51, 100>>,
                       <<7100, 8500, 101, 150>>, <<8600, 10500, 151, 200>>,
                       <<10600, 20000, 201, 300>>, <<20100, 40000, 301, 400>>>>
      [] p = "no2" -> <<<<0, 5300, 0, 50>>, <<5400, 10000, 51, 100>>,
                        <<10100, 36000, 101, 150>>, <<36100, 64900, 151, 200>>,
                        <<65000, 124900, 201, 300>>, <<125000, 204900, 301, 400>>>>
      [] p = "so2" -> <<<<0, 3500, 0, 50>>, <<3600, 7500, 51, 100>>,
                        <<7600, 18500, 101, 150>>, <<18600, 30400, 151, 200>>,
                        <<30500, 60400, 201, 300>>, <<60500, 100400, 301, 400>>>>
      [] p = "co" -> <<<<0, 440000, 0, 50>>, <<440100, 940000, 51, 100>>,
                       <<940100, 1240000, 101, 150>>, <<1240100, 1540000, 151, 200>>,
                       <<1540100, 3040000, 201, 300>>, <<3040100, 5040000, 301, 400>>>>
      [] OTHER -> << >>

Pollutants == {"pm25", "pm10", "o3", "no2", "so2", "co"}

\* int(round(n / d)), the quotient taken exactly.
RoundDiv(n, d) ==
    LET q == n \div d
        r == n % d
    IN  IF 2 * r < d THEN q
        ELSE IF 2 * r > d THEN q + 1
        ELSE IF q % 2 = 0 THEN q ELSE q + 1

\* Lines 197-212.
calculate_epa_aqi(pollutant, concentration) ==
    IF Lower(pollutant) \notin Pollutants THEN NoAqi
    ELSE LET breakpoints == Breakpoints(Lower(pollutant))
             hits == {i \in 1..Len(breakpoints) :
                         /\ breakpoints[i][1] <= concentration
                         /\ concentration <= breakpoints[i][2]}
         IN  IF hits # {}
             THEN LET b == breakpoints[CHOOSE i \in hits : \A j \in hits : i <= j]
                  IN  RoundDiv((b[4] - b[3]) * (concentration - b[1])
                                   + b[3] * (b[2] - b[1]),
                               b[2] - b[1])
             ELSE IF concentration > breakpoints[Len(breakpoints)][2] THEN 500
             ELSE NoAqi

\* The top of a pollutant's table.
TableTop(p) == Breakpoints(p)[Len(Breakpoints(p))][2]

\* Concentrations tried: the ends of every row, just past the upper end, and
\* beyond the top of the table.
EpaSamples(p) ==
    UNION {{Breakpoints(p)[i][1], Breakpoints(p)[i][2], Breakpoints(p)[i][2] + 5}
              : i \in 1..Len(Breakpoints(p))}
    \cup {TableTop(p) + 100}

EpaKeys == Pollutants \cup {"PM25", "nh3"}

EpaCall(p, c) ==
    [fn |-> "epa", pollutant |-> p, concentration |-> c, done |-> FALSE,
     aqi |-> NoAqi]

CalculateEpa ==
    /\ calc.fn = "epa"
    /\ ~calc.done
    /\ calc' = [calc EXCEPT !.done = TRUE,
                   !.aqi = calculate_epa_aqi(calc.pollutant, calc.concentration)]
    /\ UNCHANGED <<station_readings, top_n, stations_processed, city_aqi_map,
                   rankings>>
    /\ UNCHANGED outsideCalc

NoCall == [fn |-> "none", done |-> TRUE]

CalcAtRest ==
    /\ station_readings = << >>
    /\ top_n = 0
    /\ stations_processed = 0
    /\ city_aqi_map = << >>
    /\ rankings = [built |-> TRUE, list |-> << >>]
    /\ calc = NoCall

(***************************************************************************)
(* Part 9.  The AQI cache (aqi/cache.py), the MQTT configuration endpoint  *)
(* (sensors/serializers.py, sensors/views.py) and the persistence of       *)
(* sensor messages (mqtt_listener.MQTTClientWrapper.on_message).           *)
(***************************************************************************)
MaxEntries == 3        \* payloads the cache holds at one time
MaxInbound == 2        \* MQTT messages delivered in one behaviour

AqiTypes == {"current", "hourly", "daily", "enhanced"}
\* hours=None, days=None: no count is given.
NoCount == 0
\* AQIRequestSerializer's defaults, as AQIFetchView passes them on.
DEFAULT_HOURS == 24
DEFAULT_DAYS == 7

\* Coordinates in units of 0.00001 degree; the first two round to the same
\* fourth decimal.
CacheLatitudes == {3152040, 3152044, 2486070}
CacheLongitudes == {7435870}

\* generate_cache_key: 'aqi', the type and the rounded coordinates, then
\* f'h{hours}' when hours is truthy and f'd{days}' when days is truthy.  The
\* parts are kept as fields; h or d = NoCount stands for a part left out.
\* (No key built here reaches the 250 characters that are hashed.)
generate_cache_key(latitude, longitude, data_type, hours, days) ==
    [data_type |-> data_type, lat |-> Round4(latitude), lon |-> Round4(longitude),
     h |-> hours, d |-> days]

\* get_cached_aqi: the payload under the key, or None.
get_cached_aqi(store, latitude, longitude, data_type, hours, days) ==
    IF generate_cache_key(latitude, longitude, data_type, hours, days) \in store
    THEN "data" ELSE "absent"

\* The counts AQIFetchView passes to the cache for a type (views.py 62, 88).
ViewHours(data_type) == IF data_type = "hourly" THEN DEFAULT_HOURS ELSE NoCount
ViewDays(data_type) == IF data_type = "daily" THEN DEFAULT_DAYS ELSE NoCount

\* clear_aqi_cache: the keys it deletes.
ClearedKeys(latitude, longitude, data_type) ==
    {generate_cache_key(latitude, longitude, dt, NoCount, NoCount) :
        dt \in IF data_type = "all" THEN AqiTypes ELSE {data_type}}

NoCacheCall == [op |-> "none", latitude |-> 0, longitude |-> 0,
                data_type |-> "none", hours |-> NoCount, days |-> NoCount,
                result |-> "none"]
CacheCall(op, latitude, longitude, data_type, hours, days, result) ==
    [op |-> op, latitude |-> latitude, longitude |-> longitude,
     data_type |-> data_type, hours |-> hours, days |-> days, result |-> result]

\* set_cached_aqi, as the views call it; cache.set may raise, which is
\* reported as False.
SetCachedAqi(latitude, longitude, data_type, stored) ==
    /\ LET key == generate_cache_key(latitude, longitude, data_type,
                                     ViewHours(data_type), ViewDays(data_type))
       IN  /\ stored => (key \in aqi_store \/ Cardinality(aqi_store) < MaxEntries)
           /\ aqi_store' = IF stored THEN aqi_store \cup {key} ELSE aqi_store
           /\ cache_call' = CacheCall("set", latitude, longitude, data_type,
                                      ViewHours(data_type), ViewDays(data_type),
                                      IF stored THEN "true" ELSE "false")
    /\ UNCHANGED <<broker_config, config_call, sensor_rows, inbound>>
    /\ UNCHANGED outsideStore

\* get_cached_aqi, as the views call it.
GetCachedAqi(latitude, longitude, data_type) ==
    /\ cache_call' = CacheCall("get", latitude, longitude, data_type,
                               ViewHours(data_type), ViewDays(data_type),
                               get_cached_aqi(aqi_store, latitude, longitude, data_type,
                                              ViewHours(data_type), ViewDays(data_type)))
    /\ UNCHANGED <<aqi_store, broker_config, config_call, sensor_rows, inbound>>
    /\ UNCHANGED outsideStore

\* clear_aqi_cache(latitude, longitude, data_type); data_type "all" stands
\* for the call without a type.
ClearAqiCache(latitude, longitude, data_type) ==
    /\ aqi_store' = aqi_store \ ClearedKeys(latitude, longitude, data_type)
    /\ cache_call' = CacheCall("clear", latitude, longitude, data_type,
                               NoCount, NoCount, "true")
    /\ UNCHANGED <<broker_config, config_call, sensor_rows, inbound>>
    /\ UNCHANGED outsideStore

\* The TTL of an entry runs out.
Expire(key) ==
    /\ key \in aqi_store
    /\ aqi_store' = aqi_store \ {key}
    /\ UNCHANGED <<cache_call, broker_config, config_call, sensor_rows, inbound>>
    /\ UNCHANGED outsideStore

(***************************************************************************)
(* PUT and PATCH of /api/mqtt-config/.                                     *)
(***************************************************************************)
NoPassword == "none"
StoredPasswords == {NoPassword, "old"}
\* What a request may carry as host and as password ("absent": no such key).
SubmittedHosts == {"absent", "", "h2"}
SubmittedPasswords == {"absent", "***", "", "secret2"}

\* Meta.read_only_fields, and password, which is declared as a
\* SerializerMethodField (line 38): a read-only field, never taken from input.
ReadOnlyFields == {"id", "user", "created_at", "updated_at", "password"}

\* The value of a field in validated_data ("absent": the key is missing).
Validated(field, submitted) ==
    IF field \in ReadOnlyFields THEN "absent" ELSE submitted

\* validate(): host (like port and topic, which every request here carries
\* with valid values) must be present and not blank.
ConfigValid(host) == Validated("host", host) \notin {"absent", ""}

\* update(): the password key is dropped when it is '***' or '', then
\* ModelSerializer.update assigns every key of validated_data.
UpdatedPassword(stored, password) ==
    LET value == Validated("password", password)
    IN  IF value \in {"absent", "***", ""} THEN stored ELSE value

\* get_password: the mask in the response.
get_password(stored) == IF stored # NoPassword THEN "***" ELSE "None"

NoConfigCall == [method |-> "none", host |-> "absent", password |-> "absent",
                 status |-> 0, shown |-> "None", n |-> 0]

\* MQTTBrokerConfigView.update
ConfigUpdate(method, host, password) ==
    /\ LET ok == ConfigValid(host)
           row == IF ok
                  THEN [host |-> Validated("host", host),
                        password |-> UpdatedPassword(broker_config.password, password)]
                  ELSE broker_config
       IN  /\ broker_config' = row
           /\ config_call' = [method |-> method, host |-> host, password |-> password,
                              status |-> IF ok THEN 200 ELSE 400,
                              shown |-> get_password(row.password),
                              n |-> 1 - config_call.n]
    /\ UNCHANGED <<aqi_store, cache_call, sensor_rows, inbound>>
    /\ UNCHANGED outsideStore

(***************************************************************************)
(* MQTTClientWrapper.on_message and process_sensor_data.                   *)
(***************************************************************************)
\* Payloads: bytes that are not UTF-8, text that is not JSON, a JSON array,
\* a JSON object with numeric sensor values, a JSON object whose mq7_co is a
\* string.
Payloads == {"not_utf8", "not_json", "array", "object", "object_text"}

\* json.loads accepts the payload.
WellFormedJson(payload) == payload \in {"array", "object", "object_text"}

\* What on_message does with a payload: "saved" when SensorReading.objects
\* .create ran, else the except clause that logged the message.  data.get
\* raises AttributeError on a list, and 'co_ppm <= 1' raises TypeError on a
\* string, both inside process_sensor_data's try.
MessageOutcome(payload, db) ==
    CASE payload = "not_utf8" -> "error_logged"
      [] payload = "not_json" -> "invalid_json_logged"
      [] payload \in {"array", "object_text"} -> "save_error_logged"
      [] OTHER -> IF db = "ok" THEN "saved" ELSE "save_error_logged"

NoInbound == [user |-> "nobody", payload |-> "none", outcome |-> "none", n |-> 0]

\* on_message, on the network thread of user u's connected client.
OnMessage(u, payload, co, db) ==
    /\ clients[u].link = "up"
    /\ Len(sensor_rows) < MaxInbound
    /\ inbound.n < MaxInbound
    /\ LET outcome == MessageOutcome(payload, db)
           aqi_result == calculate_indoor_aqi(co, NoAqi, NoAqi)
       IN  /\ inbound' = [user |-> u, payload |-> payload, outcome |-> outcome,
                          n |-> inbound.n + 1]
           /\ sensor_rows' =
                 IF outcome = "saved"
                 THEN Append(sensor_rows,
                             [user |-> u, co_ppm |-> co,
                              calculated_aqi |-> aqi_result.aqi,
                              dominant_pollutant |-> aqi_result.dominant_pollutant])
                 ELSE sensor_rows
    /\ UNCHANGED <<aqi_store, cache_call, broker_config, config_call>>
    /\ UNCHANGED outsideStore

\* Nothing cached, no request to the configuration endpoint, no message.
StoreAtRest ==
    /\ aqi_store = {}
    /\ cache_call = NoCacheCall
    /\ broker_config = [host |-> "h1", password |-> NoPassword]
    /\ config_call = NoConfigCall
    /\ sensor_rows = << >>
    /\ inbound = NoInbound

LaterAtRest == ApiAtRest /\ SseAtRest /\ CalcAtRest /\ StoreAtRest

vars == <<sweepVars, throttleVars, wsVars, mqttVars, authVars, apiVars, sseVars,
          calcVars, storeVars>>

Init == SweepInit /\ ClientAtRest /\ WsAtRest /\ MqttAtRest /\ AuthAtRest /\ LaterAtRest

\* Sweeps of several workers (celery workers, the check_aqi_alerts command)
\* may overlap.
Next ==
    \/ \E w \in Workers : StartSweep(w)
    \/ \E w \in Workers : SweepStep(w)
    \/ AdvanceDay

Spec == Init /\ [][Next]_vars

MainWorker == "w1"

\* A sweep starts only when no other sweep is running.
StartSweepAlone(w) ==
    /\ \A v \in Workers : task[v].pc = "idle"
    /\ StartSweep(w)

NextSeq ==
    \/ \E w \in Workers : StartSweepAlone(w)
    \/ \E w \in Workers : SweepStep(w)
    \/ AdvanceDay

SeqSpec == Init /\ [][NextSeq]_vars

ThrottleStep(r) ==
    \/ ThrottleEnter(r)
    \/ ThrottleExit(r)
    \/ IssueAttempt(r)
    \/ ReceiveResponse(r)
    \/ BackoffEnd(r)
    \/ AdjustIncrease(r)
    \/ AdjustDecrease(r)

\* A request begins only when no other request is running, as in a worker
\* process that runs one task at a time.
BeginRequestAlone(r, i) ==
    /\ \A x \in Threads : req[x].pc \in {"idle", "done"}
    /\ BeginRequest(r, i)

ThrottleNext ==
    \/ \E r \in Threads, i \in Instances : BeginRequestAlone(r, i)
    \/ \E r \in Threads : ThrottleStep(r)
    \/ AdvanceTime

ClientInit == SweepAtRest /\ ThrottleInit /\ WsAtRest /\ MqttAtRest /\ AuthAtRest /\ LaterAtRest

ThrottleSpec == ClientInit /\ [][ThrottleNext]_vars

\* One connection, from the handshake to the disconnect, with at most one
\* deactivated user and at most one inactive subscription row.
WsNext ==
    \/ MiddlewareCall
    \/ Connect
    \/ LoadAndStart
    \/ \E m \in Frames : Receive(m)
    \/ \E res \in FetchResults : SubscribeUpdate(res)
    \/ Tick
    \/ \E d \in FetchTimes, res \in FetchResults : CycleUpdate(d, res)
    \/ CyclePause
    \/ Disconnect

WsInit ==
    /\ subActive \in {[i \in SubIds |-> i # k] : k \in 0..NumSubs}
    /\ userActive \in {[u \in Users |-> u # x] : x \in Users \cup {"nobody"}}
    /\ SweepIdle
    /\ ClientAtRest
    /\ WsStart
    /\ MqttAtRest
    /\ AuthAtRest
    /\ LaterAtRest

WsSpec == WsInit /\ [][WsNext]_vars

\* The same connection over a transport whose send may raise.
WsFaultNext ==
    \/ WsNext
    \/ SendRaises

WsFaultSpec == WsInit /\ [][WsFaultNext]_vars

\* The steps of the listener's main thread.
MainThread ==
    \/ StartListener
    \/ Wake
    \/ CheckNext
    \/ ReconnectWhile
    \/ ReconnectConnect
    \/ ReconnectTest
    \/ BackoffRead
    \/ BackoffWrite

MqttNext ==
    \/ MainThread
    \/ \E u \in Users, rc \in {0, 5} : OnConnect(u, rc)
    \/ \E u \in Users : OnDisconnect(u)
    \/ \E u \in Users : BrokerChange(u)
    \/ \E u \in Users : ConfigToggle(u)
    \/ \E u \in Users, h \in Hosts : ConfigEdit(u, h)

ListenerInit == SweepAtRest /\ ClientAtRest /\ WsAtRest /\ MqttInit /\ AuthAtRest /\ LaterAtRest

MqttSpec == ListenerInit /\ [][MqttNext]_vars

\* The main thread and each network thread keep running.
MqttLiveSpec ==
    /\ ListenerInit
    /\ [][MqttNext]_vars
    /\ WF_vars(MainThread)
    /\ \A u \in Users : WF_vars(OnConnect(u, 0))

AccountsInit == SweepAtRest /\ ClientAtRest /\ WsAtRest /\ MqttAtRest /\ AuthInit /\ LaterAtRest

\* Requests to the verification and password endpoints, one at a time, and
\* the clock.
ResetNext ==
    \/ ClockTick
    \/ \E e \in Emails : ForgotPassword(e)
    \/ \E e \in Emails \cup {"missing"} : ResendVerification(e)
    \/ \E t \in 0..MaxTokens, p \in {"new", "weak"} : ResetPassword(t, p)

ResetSpec == AccountsInit /\ [][ResetNext]_vars

\* Verification emails requested, tokens presented, and the admin marking
\* users verified.
VerifyNext ==
    \/ ClockTick
    \/ \E e \in Emails \cup {"missing"} : ResendVerification(e)
    \/ \E t \in 0..MaxTokens : VerifyEmail(t)
    \/ \E u \in Users : AdminVerifies(u)

VerifySpec == AccountsInit /\ [][VerifyNext]_vars

\* Requests to the token endpoints, one at a time.
SessionNext ==
    \/ \E u \in Emails, pw \in Passwords, r \in RefreshIds : Login(u, pw, r)
    \/ \E t \in RefreshIds \cup {"garbage", "missing"} : Refresh(t)
    \/ \E a \in BOOLEAN, t \in RefreshIds \cup {"garbage", "missing"} : Logout(a, t)

SessionSpec == AccountsInit /\ [][SessionNext]_vars

\* Every part outside the REST endpoints, the stream and the calculations.
EarlierAtRest ==
    SweepAtRest /\ ClientAtRest /\ WsAtRest /\ MqttAtRest /\ AuthAtRest /\ StoreAtRest

\* Requests to the subscription viewset, one at a time.
SubsInit == EarlierAtRest /\ ApiAtRest /\ SseAtRest /\ CalcAtRest

SubsNext ==
    \/ \E u \in Users : List(u)
    \/ \E u \in Users, c \in Cities : Create(u, c)
    \/ \E u \in Users, k \in Pks : Retrieve(u, k)
    \/ \E u \in Users, k \in Pks, c \in Cities, a \in BOOLEAN : Update(u, k, c, a)
    \/ \E u \in Users, k \in Pks : Destroy(u, k)
    \/ \E u \in Users, k \in Pks : Toggle(u, k)
    \/ \E u \in Users, k \in Pks, f \in {"data", "none"}, r \in NotificationReadings,
          m \in {"sent", "failed"} :
          SendNotification(u, k, "absent", 0, f, r, m)

SubsSpec == SubsInit /\ [][SubsNext]_vars

\* send-notification and chat requests with every kind of input, one at a
\* time, each user having one subscription.
NotifyInit ==
    /\ EarlierAtRest /\ SseAtRest /\ CalcAtRest
    /\ subscriptions = [k \in Pks |->
           [state |-> "live", user |-> IF k % 2 = 1 THEN "u1" ELSE "u2",
            city |-> SubCity(k),
            is_active |-> TRUE]]
    /\ saved_locations = {}
    /\ outbox = << >>
    /\ cache = {}
    /\ batch = NoBatch
    /\ api = NoApi

NotifyNext ==
    \/ \E u \in Users, k \in Pks, g \in Given, f \in FetchOutcomes,
          r \in NotificationReadings, m \in {"sent", "failed"} :
          \E t \in IF g = "number" THEN SuppliedTenths ELSE {0} :
              SendNotification(u, k, g, t, f, r, m)
    \/ \E u \in Users, rag \in {"available", "missing"}, q \in {"", "q"},
          o \in {"answer", "raises"} : ChatPost(u, rag, q, o)

NotifySpec == NotifyInit /\ [][NotifyNext]_vars

\* The sweep of one worker beside send-notification requests of the owners:
\* every subscription and user is active, each user has one subscription row.
LedgerInit ==
    /\ SweepInit
    /\ \A i \in SubIds : subActive[i]
    /\ \A u \in Users : userActive[u]
    /\ ClientAtRest /\ WsAtRest /\ MqttAtRest /\ AuthAtRest /\ SseAtRest /\ CalcAtRest
    /\ StoreAtRest
    /\ subscriptions = [k \in Pks |->
           [state |-> "live", user |-> IF k % 2 = 1 THEN "u1" ELSE "u2",
            city |-> SubCity(k),
            is_active |-> TRUE]]
    /\ saved_locations = {}
    /\ outbox = << >>
    /\ cache = {}
    /\ batch = NoBatch
    /\ api = NoApi

LedgerNext ==
    \/ StartSweepAlone(MainWorker)
    \/ SweepStep(MainWorker)
    \/ AdvanceDay
    \/ \E k \in Pks, r \in NotificationReadings, m \in {"sent", "failed"} :
          SendNotification(subscriptions[k].user, k, "absent", 0, "data", r, m)

LedgerSpec == LedgerInit /\ [][LedgerNext]_vars

\* Calls of the cache functions, one at a time, and entries running out.
CacheInit == EarlierAtRest /\ ApiAtRest /\ SseAtRest /\ CalcAtRest

CacheNext ==
    \/ \E lat \in CacheLatitudes, lon \in CacheLongitudes, dt \in AqiTypes,
          stored \in BOOLEAN : SetCachedAqi(lat, lon, dt, stored)
    \/ \E lat \in CacheLatitudes, lon \in CacheLongitudes, dt \in AqiTypes :
          GetCachedAqi(lat, lon, dt)
    \/ \E lat \in CacheLatitudes, lon \in CacheLongitudes,
          dt \in AqiTypes \cup {"all"} : ClearAqiCache(lat, lon, dt)
    \/ \E key \in aqi_store : Expire(key)

CacheSpec == CacheInit /\ [][CacheNext]_vars

\* PUT and PATCH requests of one user to /api/mqtt-config/, one at a time.
ConfigInit ==
    /\ SweepAtRest /\ ClientAtRest /\ WsAtRest /\ MqttAtRest /\ AuthAtRest
    /\ ApiAtRest /\ SseAtRest /\ CalcAtRest
    /\ aqi_store = {}
    /\ cache_call = NoCacheCall
    /\ broker_config \in [host : {"h1"}, password : StoredPasswords]
    /\ config_call = NoConfigCall
    /\ sensor_rows = << >>
    /\ inbound = NoInbound

ConfigNext ==
    \E method \in {"PUT", "PATCH"}, host \in SubmittedHosts,
       password \in SubmittedPasswords : ConfigUpdate(method, host, password)

ConfigSpec == ConfigInit /\ [][ConfigNext]_vars

\* The listener connects its clients and messages arrive on their topics.
SensorNext ==
    \/ StartListener
    \/ \E u \in Users, rc \in {0, 5} : OnConnect(u, rc)
    \/ \E u \in Users, payload \in Payloads, co \in {NoAqi, 9}, db \in {"ok", "raises"} :
          OnMessage(u, payload, co, db)

SensorSpec == ListenerInit /\ [][SensorNext]_vars

\* Batch requests, one at a time, over a cache that may hold earlier readings.
BatchInit ==
    /\ EarlierAtRest /\ SseAtRest /\ CalcAtRest
    /\ subscriptions = [k \in Pks |-> NoRow]
    /\ saved_locations = {}
    /\ outbox = << >>
    /\ cache \in SUBSET Coords
    /\ batch = NoBatch
    /\ api = NoApi

BatchNext ==
    \/ \E u \in Users, n \in BatchSizes : BatchPost(u, n)
    \/ \E o \in {"data", "none", "raises"} : BatchLocation(o)
    \/ BatchRespond

BatchSpec == BatchInit /\ [][BatchNext]_vars

\* One client of the rankings stream.
SseInit == EarlierAtRest /\ ApiAtRest /\ SseAtRest /\ CalcAtRest

SseNext ==
    \/ Open
    \/ HeartbeatCheck
    \/ UpdateCheck
    \/ \E o \in {"ok", "raises"}, d \in RankingsTimes : FetchRankings(o, d)
    \/ SseSleep
    \/ ErrorEvent
    \/ ErrorSleep
    \/ ClientDisconnect

SseSpec == SseInit /\ [][SseNext]_vars

\* One build of the rankings over every sequence of station readings.
RankInit ==
    /\ EarlierAtRest /\ ApiAtRest /\ SseAtRest
    /\ station_readings \in UNION {[1..n -> StationReadings] : n \in 0..MaxStations}
    /\ top_n \in 0..MaxTopN
    /\ stations_processed = 0
    /\ city_aqi_map = << >>
    /\ rankings = NotBuilt
    /\ calc = NoCall

RankNext ==
    \/ ProcessStation
    \/ ReturnRankings

RankSpec == RankInit /\ [][RankNext]_vars

\* One call of calculate_indoor_aqi.
IndoorInit ==
    /\ EarlierAtRest /\ ApiAtRest /\ SseAtRest
    /\ station_readings = << >>
    /\ top_n = 0
    /\ stations_processed = 0
    /\ city_aqi_map = << >>
    /\ rankings = [built |-> TRUE, list |-> << >>]
    /\ calc \in {IndoorCall(co, co2, ch4) :
                     co \in CoSamples, co2 \in Co2Samples, ch4 \in Ch4Samples}

IndoorNext == CalculateIndoor

IndoorSpec == IndoorInit /\ [][IndoorNext]_vars

\* One call of calculate_epa_aqi.
EpaInit ==
    /\ EarlierAtRest /\ ApiAtRest /\ SseAtRest
    /\ station_readings = << >>
    /\ top_n = 0
    /\ stations_processed = 0
    /\ city_aqi_map = << >>
    /\ rankings = [built |-> TRUE, list |-> << >>]
    /\ \E p \in EpaKeys :
          \E c \in EpaSamples(IF Lower(p) \in Pollutants THEN Lower(p) ELSE "pm25") :
              calc = EpaCall(p, c)

EpaNext == CalculateEpa

EpaSpec == EpaInit /\ [][EpaNext]_vars

(***************************************************************************)
(* Properties of the alert sweep.                                          *)
(***************************************************************************)
RowCount(tr) == Cardinality({row \in ledger : RowTriple(row) = tr})

\* Some worker has sent the email of tr and has not yet run the insert.
Inserting(tr) ==
    \E w \in Workers : /\ task[w].pc = "insert"
                       /\ Triple(Head(task[w].todo).sub, task[w].today) = tr

C2_AtMostOneEmail ==
    faults = 0 => \A tr \in Triples : emailCount[tr] <= 1

\* C3: every coordinate is judged by the result fetched for that coordinate.
C3_ResultsAligned ==
    \A w \in Workers :
        \A k \in DOMAIN task[w].location_aqi_map :
            task[w].location_aqi_map[k].lat = k

\* C4: an email is sent for a pair only if the subscription and its user are
\* active and the AQI fetched for the subscription's own coordinate is at
\* least 100.
C4_OnlyOwnAqiAlerts ==
    \A w \in Workers :
        task[w].pc = "insert" =>
            LET cur == Head(task[w].todo)
            IN /\ subActive[cur.sub]
               /\ userActive[Subscription(cur.sub).user]
               /\ cur.own.present
               /\ cur.own.aqi # NoAqi
               /\ cur.own.aqi >= AQI_THRESHOLD

\* C5: an exception at any step of a pair is appended to the errors list and
\* the sweep goes on with the remaining pairs.
C5_ExceptionContinues ==
    [][\A w \in Workers :
          (faults' > faults /\ task'[w] # task[w])
          => /\ task'[w].pc \in {"get_or_create", "finish"}
             /\ Len(task'[w].errors) = Len(task[w].errors) + 1]_vars

\* C6: a ledger row stands for an email whose send returned true; a send that
\* returns false writes no row, counts nothing, records one error entry and
\* leaves the pair as eligible as it was.
C6_RecordOnlyAfterSend ==
    /\ [](\A tr \in Triples : RowCount(tr) <= emailCount[tr])
    /\ [][\A w \in Workers :
            task'[w].notifications_sent > task[w].notifications_sent
            => /\ task'[w].notifications_sent = task[w].notifications_sent + 1
               /\ ledger' # ledger]_vars
    /\ [][\A w \in Workers :
            (/\ task[w].pc = "send"
             /\ task'[w] # task[w]
             /\ emailCount' = emailCount
             /\ faults' = faults)
            => /\ ledger' = ledger
               /\ task'[w].notifications_sent = task[w].notifications_sent
               /\ Len(task'[w].errors) = Len(task[w].errors) + 1
               /\ task'[w].errors[Len(task'[w].errors)].kind = "send_failed"]_vars

\* A send has returned false and the pair has no row for the date.
C6_Witness ==
    \E w \in Workers :
        /\ task[w].errors # << >>
        /\ task[w].errors[1].kind = "send_failed"
        /\ ~ExistingNotification(ledger, task[w].errors[1].sub, task[w].today)

(***************************************************************************)
(* Properties of the provider client.                                      *)
(***************************************************************************)
\* C7: any two consecutive outbound calls start at least the current
\* throttle interval apart (here with OPEN_METEO_MIN_INTERVAL left unset).
C7_CallsSpaced == setting = NotSet => call_gap >= call_interval

\* C8: the last-request time and the interval written through one instance
\* are the ones every other instance enforces.
C8_StateShared ==
    \A i, j \in Instances :
        /\ since_last[i] = since_last[j]
        /\ MinRequestInterval(i) = MinRequestInterval(j)

\* C9: for any configured baseline the throttle interval never goes below the
\* baseline and never above 2.0 seconds, whatever rate-limit and success
\* signals arrive.
C9_IntervalBounds ==
    \A i \in Instances :
        /\ MinRequestInterval(i) >= min_interval
        /\ MinRequestInterval(i) <= 2000

\* Position of a running call in its loop.
Stage(pc) ==
    CASE pc = "throttle" -> 0
      [] pc = "throttle_sleep" -> 1
      [] pc = "attempt" -> 2
      [] pc = "in_flight" -> 3
      [] pc \in {"backoff", "backoff429"} -> 4
      [] pc = "adjust_decrease" -> 5
      [] OTHER -> 6

Rank(q) == IF q.pc = "done" THEN (MaxRetriesCfg + 2) * 10 ELSE q.attempt * 10 + Stage(q.pc)

Running(q) == q.pc \notin {"idle", "done"}

\* C10: _make_request issues at most max_retries attempts; every step of the
\* call moves it forward in a loop of at most max_retries rounds, so it
\* terminates; a 400 ends it at once with None; an attempt that ends in 429,
\* 5xx, timeout or connection error after max_retries attempts ends it with
\* None.
C10_BoundedRetries ==
    /\ [](\A r \in Threads :
            /\ req[r].made <= req[r].retries
            /\ Running(req[r]) => req[r].retries = max_retries
            /\ Running(req[r]) => req[r].attempt < req[r].retries)
    /\ [][\A r \in Threads :
            (Running(req[r]) /\ req'[r].pc # req[r].pc)
            => Rank(req'[r]) > Rank(req[r])]_vars
    /\ [][\A r \in Threads :
            (req[r].pc = "in_flight" /\ req'[r].pc # "in_flight")
            => /\ req'[r].last = "400"
                  => (req'[r].pc = "done" /\ req'[r].result = "none")
               /\ (/\ req'[r].last \in {"429", "5xx", "timeout", "conn_error"}
                   /\ req[r].made = max_retries)
                  => (req'[r].pc = "done" /\ req'[r].result = "none")]_vars

\* The last of max_retries = 3 attempts is in flight after two that failed.
C10_Witness ==
    \E r \in Threads :
        /\ req[r].pc = "in_flight"
        /\ req[r].made = 3
        /\ max_retries = 3

(***************************************************************************)
(* Properties of the live-data WebSocket.                                  *)
(***************************************************************************)
\* C11: a connection attempt whose token is missing, invalid or resolves to
\* no existing user is closed with 4001 without being accepted; it loads no
\* subscriptions, starts no update loop and has no message handled.
C11_Unauthenticated4001 ==
    (token \notin Users /\ ws.phase \notin {"new", "handshake"}) =>
        /\ ws = [phase |-> "closed", accepted |-> FALSE, close_code |-> 4001]
        /\ subscribed_cities = << >>
        /\ update_task.pc = "none"
        /\ received = 0
        /\ handler = IdleHandler

\* The attempt of a deleted user's token has been closed.
C11_Witness == token = "ghost" /\ ws.phase = "closed" /\ ws.close_code = 4001

\* C12: a connection is accepted only for a user whose account is active.
C12_OnlyActiveAccepted ==
    ws.accepted => (scope_user \in Users /\ userActive[scope_user])

\* The subscribe frame whose handling has just ended carried all four fields.
SubscribeDone ==
    /\ handler.pc # "idle" \/ received' = received + 1
    /\ handler'.pc = "idle"
    /\ handler'.m.type = "subscribe"
    /\ HasRequiredFields(handler'.m)

C14_NoUpdateAfterUnsubscribe ==
    [][(update_task.pc = "fetch" /\ update_task'.pc = "pause"
          /\ outbound'.type = "aqi_update")
        => HasKey(subscribed_cities, CityKey(outbound'.city))]_vars

\* C15: consecutive heartbeats are at most 30 seconds apart: a heartbeat that
\* is not the first goes out no later than 30 seconds after the one before.
C15_HeartbeatEvery30 ==
    [][(update_task.pc = "sleep" /\ update_task'.hb_age = 0
          /\ ~update_task.first_heartbeat)
        => update_task.hb_age + 5 <= 30]_vars

(***************************************************************************)
(* Properties of the MQTT listener.                                        *)
(***************************************************************************)
\* C16: the listener never blocks indefinitely on one broker: the main loop
\* comes back to its sleep again and again, and once a configuration stays
\* deactivated the reconnect attempts for its broker come to an end.
C16_NeverBlocks ==
    /\ []<>(main.pc = "sleep")
    /\ \A u \in Users : <>[](~cfg_active[u]) => <>[](main.cur # u)

\* C17: after a successful connection the client's reconnect delay is 5
\* seconds again, however on_connect interleaves with the reconnect loop;
\* until then it is 5 doubled once per failed attempt, capped at 60.
C17_DelayResets ==
    \A u \in Users :
        /\ clients[u].reconnect_delay \in {5, 10, 20, 40, 60}
        /\ (clients[u].connected /\ ~(main.cur = u /\ main.pc \in {"read", "write"}))
              => clients[u].reconnect_delay = 5

(***************************************************************************)
(* Properties of the accounts service.                                     *)
(***************************************************************************)
\* A reset-password request has just been answered.
ResetAnswered == exchange' # exchange /\ exchange'.endpoint = "reset-password"

\* C18: a reset token is accepted only while it equals the user's stored
\* token and the clock is not past its expiry, which is the issue time plus
\* one hour; a successful reset clears the token, so a second reset with it
\* fails with 400; a rejected reset leaves every stored password unchanged.
C18_ResetTokenLifecycle ==
    /\ [][ResetAnswered =>
            LET tok == exchange'.reset
            IN /\ exchange'.status \in {200, 400}
               /\ exchange'.status = 200 =>
                     \E u \in Users :
                        /\ tok # NoToken
                        /\ accounts[u].password_reset_token = tok
                        /\ clock <= accounts[u].password_reset_expires
                        /\ accounts'[u].password_reset_token = NoToken
               /\ exchange'.status = 400 =>
                     \A u \in Users : accounts'[u].password = accounts[u].password
               /\ tok \in spent => exchange'.status = 400]_vars
    /\ [][\A u \in Users :
            accounts'[u].password_reset_token \notin {NoToken, accounts[u].password_reset_token}
               => accounts'[u].password_reset_expires = clock + HOUR]_vars

\* A reset token that was used once has been refused the second time.
C18_Witness ==
    /\ exchange.endpoint = "reset-password"
    /\ exchange.status = 400
    /\ exchange.reset \in spent

\* C19: forgot-password and resend-verification answer a registered and an
\* unregistered email with the same status and body.
C19_NoEnumeration ==
    \A e1 \in Users, e2 \in Emails \ Users :
        /\ ForgotPasswordResponse(e1) = ForgotPasswordResponse(e2)
        /\ ResendVerificationResponse(accounts, e1) = ResendVerificationResponse(accounts, e2)

\* The refresh token of the request is missing or invalid.
BadRefreshToken(t) == t \in {"missing", "garbage"} \/ t \notin outstanding \/ t \in revoked

\* C20 as stated: after a successful logout with R every refresh presenting
\* R is rejected with 401; a logout with a missing or invalid token returns
\* 400 and revokes nothing.
C20_LogoutRevokes ==
    [][exchange' # exchange =>
          /\ (exchange'.endpoint = "refresh" /\ exchange'.arg \in revoked)
                => exchange'.status = 401
          /\ (exchange'.endpoint = "logout" /\ BadRefreshToken(exchange'.arg))
                => /\ exchange'.status = 400
                   /\ blacklisted' = blacklisted
                   /\ revoked' = revoked]_vars

\* C20 as amended: the 400 is the answer to an authenticated caller; an
\* unauthenticated logout is answered 401 and revokes nothing either.
C20_LogoutRevokesAmended ==
    [][exchange' # exchange =>
          /\ (exchange'.endpoint = "refresh" /\ exchange'.arg \in revoked)
                => exchange'.status = 401
          /\ (exchange'.endpoint = "logout" /\ BadRefreshToken(exchange'.arg))
                => /\ exchange'.status = IF exchange'.authenticated THEN 400 ELSE 401
                   /\ blacklisted' = blacklisted
                   /\ revoked' = revoked
          /\ (exchange'.endpoint = "logout" /\ ~exchange'.authenticated)
                => /\ exchange'.status = 401
                   /\ blacklisted' = blacklisted
                   /\ revoked' = revoked]_vars

\* A refresh with a logged-out token has been refused.
C20_Witness ==
    /\ exchange.endpoint = "refresh"
    /\ exchange.arg \in revoked
    /\ exchange.status = 401

(***************************************************************************)
(* Properties of the REST endpoints.                                       *)
(***************************************************************************)
ByIdEndpoints == {"retrieve", "update", "destroy", "toggle", "send_notification"}

\* C21: a request that names a subscription of another user is answered 404,
\* leaves every subscription as it was and sends no email, and a list holds
\* only subscriptions of the caller.
C21_OwnSubscriptionsOnly ==
    [][/\ (/\ api'.endpoint \in ByIdEndpoints
           /\ subscriptions[api'.pk].state = "live"
           /\ subscriptions[api'.pk].user # api'.caller)
          => /\ api'.status = 404
             /\ subscriptions' = subscriptions
             /\ outbox' = outbox
       /\ api'.endpoint = "list"
          => \A k \in api'.ids : /\ subscriptions[k].state = "live"
                                 /\ subscriptions[k].user = api'.caller]_vars

C21_Witness ==
    /\ api.endpoint = "send_notification"
    /\ api.status = 404
    /\ subscriptions[api.pk].state = "live"
    /\ subscriptions[api.pk].user # api.caller

C27_SuppliedValueUsed ==
    [][(/\ api'.endpoint = "send_notification"
        /\ api'.given = "number"
        /\ api'.mail = "sent")
       => /\ api'.status = 200
          /\ api'.aqi_value = PyRound(api'.tenths)
          /\ Len(outbox') = Len(outbox) + 1
          /\ outbox'[Len(outbox')].aqi = PyRound(api'.tenths)]_vars

\* C28: every response whose status is not 2xx has the body
\* {error: true, detail: <message>}.
C28_ErrorEnvelope ==
    (api.endpoint # "none" /\ api.status \notin 200..299)
        => api.error = "true" /\ api.detail = "present"

(***************************************************************************)
(* Properties of the rankings stream.                                      *)
(***************************************************************************)
\* C22: an error raised in a cycle gives an error event and leaves the stream
\* open; five seconds later the loop runs again, and when it reaches the
\* update check the rankings are due again; the stream closes only when the
\* client disconnects.
C22_ErrorKeepsStreamOpen ==
    [][/\ (stream.pc = "error" /\ client' = "connected")
          => events'.last = "error" /\ stream'.pc = "error_sleep"
       /\ (stream.pc = "error_sleep" /\ client' = "connected")
          => /\ stream'.pc = "top"
             /\ stream'.hb_age >= stream.hb_age
             /\ stream'.hb_age = 30 \/ stream'.hb_age = stream.hb_age + 5
       /\ (stream'.retry /\ stream'.pc = "update") => stream'.upd_age >= 60
       /\ (stream'.pc = "closed" /\ stream.pc # "closed") => client' = "gone"]_vars

C22_Witness ==
    /\ client = "connected"
    /\ stream.retry
    /\ stream.pc = "fetch"
    /\ events.last = "status_loading"

\* C23: the first event of a stream is the connected status, and a rankings
\* event directly follows a loading status.
C23_ConnectedFirstLoadingBeforeRankings ==
    /\ events.first \in {"none", "status_connected"}
    /\ events.last = "rankings" => events.prev = "status_loading"

C23_Witness ==
    /\ events.first = "status_connected"
    /\ events.prev = "status_loading"
    /\ events.last = "rankings"

(***************************************************************************)
(* Properties of the calculations.                                         *)
(***************************************************************************)
\* The readings of station_readings that count for the city of entry e.
SameCity(e) ==
    {i \in 1..Len(station_readings) :
        /\ station_readings[i].tenths > 0
        /\ Lower(station_readings[i].name) = Lower(e.city)}

\* C24: the returned list has no two entries of one city, compared without
\* case, and the index of an entry is the highest index among the readings
\* of its city, in whatever order they came.
C24_WorstPerCity ==
    rankings.built =>
        /\ \A i, j \in 1..Len(rankings.list) :
              i # j => Lower(rankings.list[i].city) # Lower(rankings.list[j].city)
        /\ \A i \in 1..Len(rankings.list) :
              LET e == rankings.list[i]
              IN  /\ \A r \in SameCity(e) :
                        PyRound(station_readings[r].tenths) <= e.aqi
                  /\ \E r \in SameCity(e) :
                        PyRound(station_readings[r].tenths) = e.aqi

C24_Witness ==
    /\ rankings.built
    /\ Len(station_readings) = 2
    /\ station_readings[1] = [name |-> "Lahore, PK", tenths |-> 1200]
    /\ station_readings[2] = [name |-> "lahore, pk", tenths |-> 800]
    /\ Len(rankings.list) = 1
    /\ rankings.list[1].aqi = 120

\* C25: the returned list has at most top_n entries, each index is greater
\* than the one after it, and the ranks are 1..N in list order.
C25_StrictlyDescending ==
    rankings.built =>
        /\ Len(rankings.list) <= top_n
        /\ \A i \in 1..Len(rankings.list) : rankings.list[i].rank = i
        /\ \A i \in 1..(Len(rankings.list) - 1) :
              rankings.list[i].aqi > rankings.list[i + 1].aqi

\* C25 as amended: cities with equal indices follow one another, so each
\* index is at least the one after it.
C25_DescendingAmended ==
    rankings.built =>
        /\ Len(rankings.list) <= top_n
        /\ \A i \in 1..Len(rankings.list) : rankings.list[i].rank = i
        /\ \A i \in 1..(Len(rankings.list) - 1) :
              rankings.list[i].aqi >= rankings.list[i + 1].aqi

C25_Witness ==
    /\ rankings.built
    /\ top_n = 2
    /\ Len(city_aqi_map) = 3
    /\ city_aqi_map[1].aqi < city_aqi_map[3].aqi
    /\ Len(rankings.list) = 2
    /\ rankings.list[1].aqi > rankings.list[2].aqi

\* C29: the AQI of calculate_indoor_aqi is the highest sub-index of the
\* supplied values and the dominant pollutant holds it; for CO 40, CO2 2600
\* and CH4 5 the dominant pollutant is CO2 and the AQI is the sub-index of
\* CO2.
C29_DominantIsHighest ==
    (calc.fn = "indoor" /\ calc.done) =>
        LET subs == [key \in {"CO", "CO2", "CH4"} |->
                        CASE key = "CO" -> IF calc.co = NoAqi THEN NoAqi ELSE CoIndex(calc.co)
                          [] key = "CO2" -> IF calc.co2 = NoAqi THEN NoAqi ELSE Co2Index(calc.co2)
                          [] OTHER -> IF calc.ch4 = NoAqi THEN NoAqi ELSE Ch4Index(calc.ch4)]
        IN  /\ (\E k \in DOMAIN subs : subs[k] # NoAqi)
               => /\ \A k \in DOMAIN subs : subs[k] <= calc.aqi
                  /\ calc.dominant_pollutant \in DOMAIN subs
                  /\ subs[calc.dominant_pollutant] = calc.aqi
            /\ (calc.co = 40 /\ calc.co2 = 2600 /\ calc.ch4 = 5)
               => /\ calc.dominant_pollutant = "CO2"
                  /\ calc.aqi = subs["CO2"]

\* C30: for a recognized pollutant key and a concentration of 0 or more,
\* calculate_epa_aqi returns an integer from 0 to 500, and 500 above the top
\* of the table; it returns None only for an unrecognized key.
C30_EpaRange ==
    (calc.fn = "epa" /\ calc.done) =>
        IF Lower(calc.pollutant) \in {"pm25", "pm10", "o3", "no2", "so2", "co"}
        THEN /\ calc.aqi \in 0..500
             /\ calc.concentration > TableTop(Lower(calc.pollutant)) => calc.aqi = 500
        ELSE calc.aqi = NoAqi


(***************************************************************************)
(* Properties that span the parts.                                         *)
(***************************************************************************)
\* C35: in every reachable state, two overlapping sweeps included, the
\* ledger holds at most one row for a (user, saved_location, date).
C35_OneRowPerTriple == \A tr \in Triples : RowCount(tr) <= 1

\* Two overlapping sweeps have both sent the email of one pair; the row of
\* the first is in the ledger and the second is at its insert.
C35_Witness ==
    \E w \in Workers :
        /\ task[w].pc = "insert"
        /\ UniqueTogether(ledger, Head(task[w].todo).sub, task[w].today)
        /\ emailCount[Triple(Head(task[w].todo).sub, task[w].today)] = 2


\* C39: ledger rows are created only by the sweep, one at a time, for a pair
\* whose email send has returned true, and a row once written is never
\* changed; a request to the API, send-notification included, leaves the
\* ledger as it was.
C39_LedgerWrittenBySweepOnly ==
    [][/\ ledger \subseteq ledger'
       /\ ledger' # ledger =>
             \E w \in Workers :
                 /\ task[w].pc = "insert"
                 /\ task'[w] # task[w]
                 /\ \E row \in ledger' \ ledger :
                       /\ ledger' = ledger \cup {row}
                       /\ RowTriple(row) = Triple(Head(task[w].todo).sub, task[w].today)
                       /\ emailCount[RowTriple(row)] >= 1
       /\ api' # api => ledger' = ledger]_vars

\* A send-notification request has been answered 200 and its email handed
\* over, the sweep has written a row, and no row belongs to the requester.
C39_Witness ==
    /\ api.endpoint = "send_notification"
    /\ api.status = 200
    /\ outbox # << >>
    /\ ledger # {}
    /\ \A row \in ledger : row.user # api.caller


\* C34: every 429 received by _make_request, on whichever attempt, is
\* followed by the increase of the throttle interval (times 1.5, at most
\* 2.0 s) before the call goes on to anything else.
C34_Every429RaisesInterval ==
    /\ [][\A r \in Threads :
            (/\ req[r].pc = "in_flight"
             /\ req'[r].pc # "in_flight"
             /\ req'[r].last = "429")
            => req'[r].pc = "backoff429"]_vars
    /\ [][\A r \in Threads :
            (req[r].pc = "backoff429" /\ req'[r].pc # "backoff429")
            => IntervalOf(inst_interval', req[r].inst) =
                   Increased(MinRequestInterval(req[r].inst))]_vars


(***************************************************************************)
(* Properties of the cache, the configuration endpoint and the messages.   *)
(***************************************************************************)
\* C31: once clear_aqi_cache(lat, lon) has been called without a type,
\* get_cached_aqi finds nothing at that coordinate for any type, the hourly
\* and daily entries stored with an hours or days count included.
C31_ClearRemovesEveryType ==
    (cache_call.op = "clear" /\ cache_call.data_type = "all")
    => \A dt \in AqiTypes :
          get_cached_aqi(aqi_store, cache_call.latitude, cache_call.longitude, dt,
                         ViewHours(dt), ViewDays(dt)) = "absent"

\* C32: an accepted PUT or PATCH whose password is '***' or '' (or absent)
\* leaves the stored password as it was, and any other password replaces it.
C32_PasswordReplacedUnlessMasked ==
    [][(config_call' # config_call /\ config_call'.status = 200)
       => broker_config'.password =
             IF config_call'.password \in {"absent", "***", ""}
             THEN broker_config.password
             ELSE config_call'.password]_vars

\* C38: a message whose payload is well-formed JSON adds exactly one
\* sensor_readings row, owned by the user of the client's configuration; any
\* other payload adds none; either way the client and the listener are left
\* as they were.
C38_OneReadingPerJsonMessage ==
    [][inbound' # inbound
       => /\ WellFormedJson(inbound'.payload)
             => /\ Len(sensor_rows') = Len(sensor_rows) + 1
                /\ sensor_rows'[Len(sensor_rows')].user = inbound'.user
          /\ ~WellFormedJson(inbound'.payload) => sensor_rows' = sensor_rows
          /\ clients' = clients
          /\ main' = main]_vars


\* C33: verify-email with the current token of an unverified user marks the
\* user verified and clears the token fields; with the token of a user who is
\* already verified it answers 200 and changes no field; with a token that
\* matches no user it answers 400 and changes nothing.
C33_VerifyEmailCases ==
    [][(exchange' # exchange /\ exchange'.endpoint = "verify-email")
       => LET tok == exchange'.reset
              owners == IF tok = NoToken THEN {}
                        ELSE {u \in Users : accounts[u].verification_token = tok}
          IN  IF owners = {}
              THEN exchange'.status = 400 /\ accounts' = accounts
              ELSE IF \E u \in owners : accounts[u].is_verified
              THEN exchange'.status = 200 /\ accounts' = accounts
              ELSE /\ exchange'.status = 200
                   /\ \A u \in Users :
                         accounts'[u] =
                            IF u \in owners
                            THEN [accounts[u] EXCEPT
                                     !.is_verified = TRUE,
                                     !.verification_token = NoToken,
                                     !.verification_token_created = NoTime]
                            ELSE accounts[u]]_vars

\* The token of a user whom the admin marked verified has been presented and
\* answered 200, and another user has been verified through the endpoint.
C33_Witness ==
    /\ exchange.endpoint = "verify-email"
    /\ exchange.status = 200
    /\ exchange.detail = "Email is already verified."
    /\ \E u \in Users : /\ accounts[u].is_verified
                        /\ accounts[u].verification_token = exchange.reset
    /\ \E v \in Users : /\ accounts[v].is_verified
                        /\ accounts[v].verification_token = NoToken
                        /\ next_token >= 2


\* C37: the background loop of an open connection runs until the disconnect
\* cancels it, whatever fetch or send failed in an earlier cycle, and after
\* the disconnect it sends no further message.
C37_LoopRunsUntilDisconnect ==
    /\ [](ws.phase = "open" => update_task.pc \in {"sleep", "fetch", "pause"})
    /\ [][ws.phase = "disconnected" => outbound' = outbound]_vars


\* C36: when update_clients has run (at the start and at every refresh), the
\* listener holds one client for each active configuration, connected to the
\* configured broker, and none for any other user; a client whose broker
\* settings had changed has been replaced by a new, not yet connected one.
C36_ClientsMatchConfigs ==
    [][(\/ main.pc = "start" /\ main'.pc = "sleep"
        \/ /\ main.pc = "sleep" /\ main'.pc = "check"
           /\ MqttAged(main.check_age, 5) >= CONFIG_CHECK_INTERVAL)
       => /\ \A u \in Users :
                /\ clients'[u].present <=> cfg_active[u]
                /\ cfg_active[u] => clients'[u].host = cfg_host[u]
                /\ (cfg_active[u] /\ clients[u].present /\ clients[u].host # cfg_host[u])
                   => /\ ~clients'[u].connected
                      /\ clients'[u].link \in {"pending", "none"}
                      /\ clients'[u].reconnect_delay = INITIAL_RECONNECT_DELAY
          /\ Len(client_order') = Cardinality({u \in Users : cfg_active[u]})
          /\ \A u \in Users :
                cfg_active[u] => \E i \in 1..Len(client_order') : client_order'[i] = u]_vars

\* A refresh has just run: one user's client is a new one for the broker the
\* configuration was changed to, and the other user, whose configuration is
\* inactive, has no client.
C36_Witness ==
    /\ main.pc = "check"
    /\ main.check_age = 0
    /\ changes >= 1
    /\ \E u, v \in Users :
          /\ clients[u].present
          /\ clients[u].host = "h2"
          /\ cfg_host[u] = "h2"
          /\ ~clients[u].connected
          /\ ~cfg_active[v]
          /\ ~clients[v].present

=============================================================================
